---------------------------- MODULE Spec2Model ----------------------------
(***************************************************************************)
(* A model of the tlb-auto-scheduler: the mutation algebra (mutation.rs),  *)
(* the overlap matrices (session.rs), the cost reducer and the evaluator   *)
(* (costs.rs, evaluator.rs) and the best-of-K orchestrator (main.rs).      *)
(*                                                                         *)
(* Ids are dense indices starting at 0, as in the source.  Option::None of *)
(* an Option<InstructorId> is written None.                                *)
(***************************************************************************)
EXTENDS Integers, Sequences, FiniteSets, TLC

VARIABLES
    \* ---- mutation algebra (mutation.rs) ----
    availabilities,   \* AvailabilityMatrix: [session, instructor] -> Availability
    solution,         \* Solution.assignment of the solver's working solution
    before,           \* the assignment before the last mutation was applied
    applied,          \* the assignment right after apply_mutation
    last_round,       \* what the last round did with its mutation
    \* ---- problem construction (main.rs 69-88, session.rs) ----
    classes,          \* the parsed rows of classes.tsv
    sessions,         \* classes_to_sessions(&classes)
    overlaps_sharp,   \* OverlapMatrix::from_sessions(.., Sharp)
    overlaps_padded,  \* OverlapMatrix::from_sessions(.., WithPadding)
    overlaps_same_day,\* OverlapMatrix::from_sessions(.., SameDay)
    build_pc,         \* how far main_impl has got with the construction
    \* ---- evaluation (costs.rs, evaluator.rs) ----
    instructors,      \* problem.instructors: the ClassTypeRequirement of each
    initial_solution, \* problem.initial_solution.assignment
    cost_config,      \* CostConfig.map: Constraint -> weight or Infinity
    overflow_checks,  \* whether the build panics on integer overflow (debug) or wraps
    costs,            \* the CostCount of the last evaluate
    total,            \* the total_cost of the last evaluate
    previous,         \* the evaluation before the last change of a weight, or
                      \* before the solution was evaluated again
    eval_pc,          \* "idle", "start", "evaluated" or "raised"
    \* ---- orchestrator (main.rs 153-193) ----
    args,             \* Args: cpus, start_seed, total_attempts, num_rounds
    orch_pc,          \* where the main thread is in thread_pool.scoped
    next_attempt,     \* the loop variable i of the attempts loop
    jobs,             \* the closures given to pool_scope.execute, in queue order
    best_result,      \* the Option<SolverOutput> inside the best_result mutex
    best_lock,        \* the best_result mutex: "free", "held" or "poisoned"
    emissions,        \* the results written by output_solution, in order
    rejections,       \* the "Did not get improvement" lines, in order
    outputter_lock,   \* OUTPUTTER_MUTEX: "free" or "held"
    main_result,      \* what main_impl returned: "Running", "Ok" or the kind of Err
    exit_code,        \* the exit code of the process, None while it runs
    \* ---- one run of solve_once (solver.rs 32-128) ----
    run_seed,         \* the SolverSeed of the run
    round_num,        \* the loop variable of the rounds loop
    current_cost,     \* the tracked cost of the working solution
    eval_buffer_helper, \* the EvalBuffer handed from round to round
    solve_pc,         \* "idle", "begin", "rounds", "returned" or "panicked"
    log,              \* the lines written to the log of the run
    output,           \* the SolverOutput of the run, once it has returned
    second_run,       \* another run of solve_once on the same arguments, whose
                      \* rng yields what the rng of the first run yields
    \* ---- availability matrix (availabilities.rs, talloc.rs) ----
    applications,     \* TallocApps: the applications by zid and ignore_no_application
    avail_pc,         \* "idle", "start", "built", "rebuilt", or the kind of Err
    prior_build       \* the applications and the matrix of the build before
                      \* one entry of an application changed

mutvars == <<availabilities, solution, before, applied, last_round>>
buildvars == <<classes, sessions, overlaps_sharp, overlaps_padded, overlaps_same_day, build_pc>>
evalvars == <<instructors, initial_solution, cost_config, overflow_checks, costs, total,
              previous, eval_pc>>
orchvars == <<args, orch_pc, next_attempt, jobs, best_result, best_lock, emissions,
              rejections, outputter_lock, main_result, exit_code>>
solvevars == <<run_seed, round_num, current_cost, eval_buffer_helper, solve_pc, log, output,
               second_run>>
availvars == <<applications, avail_pc, prior_build>>
vars == <<mutvars, buildvars, evalvars, orchvars, solvevars, availvars>>

-----------------------------------------------------------------------------
(* Bounds of the model *)

\* number of sessions of the problems the mutation algebra is exercised on
MutSessions == 2
\* number of instructors of those problems
MutInstructors == 2
\* how many times one sample of make_random may take its Mult branch
MaxMults == 1
\* number of instructors of the problems that are evaluated
EvalInstructors == 2
\* largest --total-attempts of a run
MaxAttempts == 2
\* largest --cpus of a run
MaxCpus == 2
\* largest finite final cost an attempt ends with
MaxFinalCost == 2
\* largest num_rounds of a run of solve_once
MaxRounds == 2
\* width in bits of an rng seed (u64 in the program)
SeedBits == 2
\* number of rows of classes.tsv
MaxClasses == 2
\* classes start in the last HourSpan + 1 hours a class may start in
HourSpan == 3
\* CostValue is u64; the model computes with CostBits bits instead, so that
\* sums and products overflow within reach of the model checker
CostBits == 6

-----------------------------------------------------------------------------
(* Option<InstructorId>::None *)
None == -1

MutSessionIds == 0 .. (MutSessions - 1)
MutInstructorIds == 0 .. (MutInstructors - 1)

\* talloc::Availability, with its derived total order
Availability == {"Impossible", "Dislike", "Possible", "Preferred"}

-----------------------------------------------------------------------------
(* enum Mutation *)
Remove(session, removed) == [kind |-> "Remove", session |-> session, old |-> removed, new |-> None]
Add(session, instructor) == [kind |-> "Add", session |-> session, old |-> None, new |-> instructor]
Swap(session, old, new) == [kind |-> "Swap", session |-> session, old |-> old, new |-> new]
Mult(a, b) == [kind |-> "Mult", a |-> a, b |-> b]

\* Option<Mutation>::None, and a panic of the sampler (an empty rng range)
NoMutation == [kind |-> "None"]
SamplerPanic == [kind |-> "Panic"]

IsMutation(m) == m.kind \in {"Remove", "Add", "Swap", "Mult"}

(* Solution::apply_mutation *)
RECURSIVE apply_mutation(_, _)
apply_mutation(assignment, mutation) ==
    CASE mutation.kind = "Mult" ->
            apply_mutation(apply_mutation(assignment, mutation.a), mutation.b)
      [] mutation.kind = "Remove" -> [assignment EXCEPT ![mutation.session] = None]
      [] mutation.kind = "Add" -> [assignment EXCEPT ![mutation.session] = mutation.new]
      [] mutation.kind = "Swap" -> [assignment EXCEPT ![mutation.session] = mutation.new]

(* a reversal that undoes the components of a Mult in application order *)
RECURSIVE reverse_mutation_in_apply_order(_, _)
reverse_mutation_in_apply_order(assignment, mutation) ==
    CASE mutation.kind = "Mult" ->
            reverse_mutation_in_apply_order(
                reverse_mutation_in_apply_order(assignment, mutation.a), mutation.b)
      [] mutation.kind = "Remove" -> [assignment EXCEPT ![mutation.session] = mutation.old]
      [] mutation.kind = "Add" -> [assignment EXCEPT ![mutation.session] = None]
      [] mutation.kind = "Swap" -> [assignment EXCEPT ![mutation.session] = mutation.old]

(* Solution::reverse_mutation *)
RECURSIVE reverse_mutation(_, _)
reverse_mutation(assignment, mutation) ==
    CASE mutation.kind = "Mult" ->
            reverse_mutation(reverse_mutation(assignment, mutation.b), mutation.a)
      [] mutation.kind = "Remove" -> [assignment EXCEPT ![mutation.session] = mutation.old]
      [] mutation.kind = "Add" -> [assignment EXCEPT ![mutation.session] = None]
      [] mutation.kind = "Swap" -> [assignment EXCEPT ![mutation.session] = mutation.old]

(* AvailabilityMatrix::get_availability *)
get_availability(matrix, session, instructor) == matrix[<<session, instructor>>]

\* the closure that returns the first instructor drawn, whatever the
\* availability
rand_instructor_first_draw(matrix, instructorIds, session) == instructorIds

(* The closure rand_instructor_for_session of make_random: up to 16 draws   *)
(* of a uniform instructor, the first one that is not Impossible for the    *)
(* session is returned, None when all 16 draws are Impossible.  The set of  *)
(* outcomes over all rng streams: every possible instructor can be the      *)
(* first hit, and None needs one Impossible instructor to be drawn 16 times.*)
rand_instructor_for_session(matrix, instructorIds, session) ==
    {j \in instructorIds : get_availability(matrix, session, j) # "Impossible"}
    \cup (IF \E j \in instructorIds :
                 get_availability(matrix, session, j) = "Impossible"
          THEN {None} ELSE {})

\* `rand_instructor_for_session(rng)?` followed by the mutation built from the
\* instructor; rng.usize(0..0) panics when there is no instructor
WithRandInstructor(matrix, instructorIds, session, MutationFor(_)) ==
    IF instructorIds = {}
    THEN {SamplerPanic}
    ELSE {IF draw = None THEN NoMutation ELSE MutationFor(draw)
          : draw \in rand_instructor_for_session(matrix, instructorIds, session)}

(* the two-swap rotation whose second Swap records the wrong old instructor *)
RotationWrongOld(session, old_instructor, other_session, other_instructor) ==
    Mult(Swap(session, old_instructor, other_instructor),
         Swap(other_session, old_instructor, old_instructor))

(* make_random, decision == 2: the Mult of two Swaps exchanging instructors *)
Rotation(session, old_instructor, other_session, other_instructor) ==
    Mult(Swap(session, old_instructor, other_instructor),
         Swap(other_session, other_instructor, old_instructor))

(* make_random past its first draw (rng.u8(0..8) # 3): the outcomes over    *)
(* all values of the remaining draws                                        *)
make_random_single(matrix, sessionIds, instructorIds, assignment) ==
    IF sessionIds = {}
    THEN {SamplerPanic}
    ELSE UNION {
        IF assignment[session] # None
        THEN LET old_instructor == assignment[session] IN
             \* decision == 1
             {Remove(session, old_instructor)}
             \* decision == 2
             \cup {IF other_session = session THEN NoMutation
                   ELSE IF assignment[other_session] = None THEN NoMutation
                   ELSE Rotation(session, old_instructor,
                                 other_session, assignment[other_session])
                   : other_session \in sessionIds}
             \* any other decision
             \cup WithRandInstructor(matrix, instructorIds, session,
                                     LAMBDA new_instructor :
                                         Swap(session, old_instructor, new_instructor))
        ELSE WithRandInstructor(matrix, instructorIds, session,
                                LAMBDA instructor_id : Add(session, instructor_id))
        : session \in sessionIds}

(* The draws of rng.u8(0..8) == 3 over one call of make_random and the      *)
(* calls nested in it form a binary tree: a call that takes the Mult branch *)
(* has the trees of its two nested calls as children, any other call is a   *)
(* leaf.  MultShapes(n): the trees with exactly n Mult branches.            *)
Leaf == [mult |-> FALSE]
Branch(first, second) == [mult |-> TRUE, first |-> first, second |-> second]

RECURSIVE MultShapes(_)
MultShapes(n) ==
    IF n = 0
    THEN {Leaf}
    ELSE UNION {{Branch(first, second) : first \in MultShapes(k),
                                         second \in MultShapes(n - 1 - k)}
                : k \in 0 .. (n - 1)}

RECURSIVE LeafCount(_)
LeafCount(shape) ==
    IF shape.mult THEN LeafCount(shape.first) + LeafCount(shape.second) ELSE 1

Shapes == UNION {MultShapes(n) : n \in 0 .. MaxMults}

(* Mutation::make_random, as a function of what the rng yields: `shape` is  *)
(* the tree of Mult branches taken and draws[offset + 1 ..] the outcomes of *)
(* the leaf calls in call order, each one an outcome of make_random_single  *)
(* for the same unmodified solution.  A component that is None (or a panic) *)
(* ends the call with that outcome (the `?` of lines 25 and 26).            *)
RECURSIVE make_random(_, _, _)
make_random(shape, draws, offset) ==
    IF ~shape.mult
    THEN draws[offset + 1]
    ELSE LET first == make_random(shape.first, draws, offset) IN
         IF ~IsMutation(first) THEN first
         ELSE LET second == make_random(shape.second, draws,
                                        offset + LeafCount(shape.first)) IN
              IF ~IsMutation(second) THEN second ELSE Mult(first, second)

-----------------------------------------------------------------------------
(* Admissible mutations: Add targets an empty session, Remove and Swap      *)
(* record the instructor currently at the session, Mult(a, b) has a         *)
(* admissible for s and b admissible for apply(s, a).                       *)
RECURSIVE IsAdmissible(_, _)
IsAdmissible(assignment, mutation) ==
    CASE mutation.kind = "Mult" ->
            /\ IsAdmissible(assignment, mutation.a)
            /\ IsAdmissible(apply_mutation(assignment, mutation.a), mutation.b)
      [] mutation.kind = "Add" -> assignment[mutation.session] = None
      [] mutation.kind = "Remove" -> assignment[mutation.session] = mutation.old
      [] mutation.kind = "Swap" -> assignment[mutation.session] = mutation.old

\* the Remove, Add and Swap mutations that are admissible for an assignment
AdmissibleAtoms(assignment) ==
    UNION {
        IF assignment[session] = None
        THEN {Add(session, j) : j \in MutInstructorIds}
        ELSE {Remove(session, assignment[session])}
             \cup {Swap(session, assignment[session], j) : j \in MutInstructorIds}
        : session \in MutSessionIds}

\* the sequences of n atoms in which each atom is admissible for the
\* assignment the atoms before it lead to
RECURSIVE AdmissibleLeaves(_, _)
AdmissibleLeaves(assignment, n) ==
    IF n = 0
    THEN {<<>>}
    ELSE UNION {{<<a>> \o rest : rest \in AdmissibleLeaves(apply_mutation(assignment, a), n - 1)}
                : a \in AdmissibleAtoms(assignment)}

\* the mutation with the given tree of Mults and the given atoms at its leaves
RECURSIVE Compose(_, _, _)
Compose(shape, leaves, offset) ==
    IF ~shape.mult
    THEN leaves[offset + 1]
    ELSE Mult(Compose(shape.first, leaves, offset),
              Compose(shape.second, leaves, offset + LeafCount(shape.first)))

-----------------------------------------------------------------------------
(* The problems and solutions the mutation algebra is exercised on *)

Assignments == [MutSessionIds -> MutInstructorIds \cup {None}]

MutCells == MutSessionIds \X MutInstructorIds

\* availability matrices over the given cells: every cell Impossible, the
\* cells of the first instructor, or the cells (s, j) with s = j
AvailabilityPatterns(cells) ==
    { [c \in cells |-> "Impossible"],
      [c \in cells |-> IF c[2] = 0 THEN "Impossible" ELSE "Preferred"],
      [c \in cells |-> IF c[1] = c[2] THEN "Impossible" ELSE "Dislike"] }

\* nothing is being evaluated
EvalIdle ==
    /\ instructors = <<>>
    /\ initial_solution = <<>>
    /\ cost_config = <<>>
    /\ overflow_checks = FALSE
    /\ costs = <<>>
    /\ total = <<>>
    /\ previous = <<>>
    /\ eval_pc = "idle"

\* no attempts are being run
OrchIdle ==
    /\ args = <<>>
    /\ orch_pc = "idle"
    /\ next_attempt = 0
    /\ jobs = <<>>
    /\ best_result = <<>>
    /\ best_lock = "free"
    /\ emissions = <<>>
    /\ rejections = <<>>
    /\ outputter_lock = "free"
    /\ main_result = "Running"
    /\ exit_code = None

\* solve_once is not running
SolveIdle ==
    /\ run_seed = <<>>
    /\ round_num = 0
    /\ current_cost = <<>>
    /\ eval_buffer_helper = <<>>
    /\ solve_pc = "idle"
    /\ log = <<>>
    /\ output = <<>>
    /\ second_run = <<>>

\* no availability matrix is being built
AvailIdle ==
    /\ applications = <<>>
    /\ avail_pc = "idle"
    /\ prior_build = <<>>

\* no problem is being constructed
BuildIdle ==
    /\ classes = <<>>
    /\ sessions = <<>>
    /\ overlaps_sharp = {}
    /\ overlaps_padded = {}
    /\ overlaps_same_day = {}
    /\ build_pc = "idle"

MutInit ==
    /\ BuildIdle
    /\ EvalIdle
    /\ OrchIdle
    /\ SolveIdle
    /\ AvailIdle
    /\ availabilities \in AvailabilityPatterns(MutCells)
    /\ solution \in Assignments
    /\ before = solution
    /\ applied = solution
    /\ last_round = [origin |-> "none", outcome |-> "none", kind |-> "None"]

(* One round of solve_once (solver.rs 70-109) as far as the assignment     *)
(* goes: make_random; None skips the round; otherwise apply_mutation, and   *)
(* then the mutation is either retained or undone by reverse_mutation.      *)
SolverRound ==
    /\ last_round.outcome = "none"
    /\ \E shape \in Shapes :
       \E draws \in [1 .. LeafCount(shape) ->
                        make_random_single(availabilities, MutSessionIds,
                                           MutInstructorIds, solution)] :
       \E retain \in BOOLEAN :
          LET m == make_random(shape, draws, 0) IN
          /\ m.kind # "Panic"
          /\ before' = solution
          /\ IF ~IsMutation(m)
             THEN /\ applied' = solution
                  /\ solution' = solution
                  /\ last_round' = [origin |-> "make_random", outcome |-> "skipped",
                                    kind |-> "None"]
             ELSE /\ applied' = apply_mutation(solution, m)
                  /\ solution' = IF retain
                                 THEN apply_mutation(solution, m)
                                 ELSE reverse_mutation(apply_mutation(solution, m), m)
                  /\ last_round' = [origin |-> "make_random",
                                    outcome |-> IF retain THEN "kept" ELSE "reversed",
                                    kind |-> m.kind]
    /\ UNCHANGED <<availabilities, buildvars, evalvars, orchvars, solvevars, availvars>>

(* apply_mutation then reverse_mutation with any admissible mutation *)
AdmissibleRoundTrip ==
    /\ last_round.outcome = "none"
    /\ \E shape \in Shapes :
       \E leaves \in AdmissibleLeaves(solution, LeafCount(shape)) :
          LET m == Compose(shape, leaves, 0) IN
          /\ IsAdmissible(solution, m)
          /\ before' = solution
          /\ applied' = apply_mutation(solution, m)
          /\ solution' = reverse_mutation(apply_mutation(solution, m), m)
          /\ last_round' = [origin |-> "admissible", outcome |-> "reversed",
                            kind |-> m.kind]
    /\ UNCHANGED <<availabilities, buildvars, evalvars, orchvars, solvevars, availvars>>

NoRound == [origin |-> "none", outcome |-> "none", kind |-> "None"]

(* the loop of solve_once going on to its next round *)
StartRound ==
    /\ last_round.outcome # "none"
    /\ before' = solution
    /\ applied' = solution
    /\ last_round' = NoRound
    /\ UNCHANGED <<availabilities, solution, buildvars, evalvars, orchvars, solvevars, availvars>>

MutNext == SolverRound \/ AdmissibleRoundTrip \/ StartRound

SpecMut == MutInit /\ [][MutNext]_vars

-----------------------------------------------------------------------------
\* C1: reverse_mutation after apply_mutation with the same admissible
\* mutation yields an assignment equal to the original in every cell.
C1_ReverseAfterApplyIsIdentity ==
    (last_round.origin = "admissible" /\ last_round.outcome = "reversed")
        => \A session \in MutSessionIds : solution[session] = before[session]

\* an admissible Mult was applied, changed the assignment, and was reversed
C1_Witness ==
    /\ last_round.origin = "admissible"
    /\ last_round.outcome = "reversed"
    /\ last_round.kind = "Mult"
    /\ applied # before
    /\ solution = before

\* C2: applying a mutation returned by make_random and then reversing it
\* restores exactly the solution it was sampled for.
C2_MakeRandomRoundTrip ==
    (last_round.origin = "make_random" /\ last_round.outcome = "reversed")
        => solution = before

\* a sampled Mult changed two or more cells and was reversed
C2_Witness ==
    /\ last_round.origin = "make_random"
    /\ last_round.outcome = "reversed"
    /\ last_round.kind = "Mult"
    /\ \A session \in MutSessionIds : applied[session] # before[session]
    /\ solution = before

-----------------------------------------------------------------------------
(* Time and session primitives (utils.rs, classes.rs, session.rs) *)

\* TimeOfDay is an hour below 24 (utils.rs 86, 97)
DayHours == 24
TUT_DURATION_HOURS == 1
LAB_DURATION_HOURS == 2

\* utils::Day, of which the model draws two
Day == {"Mon", "Tue", "Wed", "Thu", "Fri"}
ModelDays == {"Mon", "Tue"}
Mode == {"F2F", "Online"}

(* u8::saturating_add *)
SaturatingAdd(a, b) == IF a + b > 255 THEN 255 ELSE a + b

(* TimeOfDay::add_hr panics when the saturated sum is not below 24 *)
AddHrPanics(time, hour) == ~(SaturatingAdd(time, hour) < DayHours)

(* TimeOfDay::add_hr and TimeOfDay::add_duration, when they do not panic *)
add_hr(time, hour) == SaturatingAdd(time, hour)

\* extract_and_check_meetings accepts a class only if start + 1 and
\* start + 1 + 2 are both hours below 24, so a class starts at 20 at the latest
LatestClassStart == DayHours - 1 - (TUT_DURATION_HOURS + LAB_DURATION_HOURS)
ClassStarts == (LatestClassStart - HourSpan) .. LatestClassStart

\* struct Class (without its name); a class may not ignore both sessions here
Classes ==
    {c \in [day : ModelDays, start : ClassStarts, mode : Mode,
            ignore_tut : BOOLEAN, ignore_lab : BOOLEAN] :
        ~(c.ignore_tut /\ c.ignore_lab)}

\* the lists of at most n classes
ClassLists(n) == UNION {[1 .. len -> Classes] : len \in 0 .. n}

(* class_to_sessions; the session ids are set by classes_to_sessions *)
class_to_sessions(class) ==
    (IF ~class.ignore_tut
     THEN <<[session_id |-> 0, day |-> class.day, start_time |-> class.start,
             duration |-> TUT_DURATION_HOURS + LAB_DURATION_HOURS,
             typ |-> "TutLab", mode |-> class.mode]>>
     ELSE <<>>)
    \o
    (IF ~class.ignore_lab
     THEN <<[session_id |-> 0, day |-> class.day,
             start_time |-> add_hr(class.start, TUT_DURATION_HOURS),
             duration |-> LAB_DURATION_HOURS,
             typ |-> "LabAssist", mode |-> class.mode]>>
     ELSE <<>>)

RECURSIVE FlatMapSessions(_)
FlatMapSessions(class_list) ==
    IF class_list = <<>> THEN <<>>
    ELSE class_to_sessions(Head(class_list)) \o FlatMapSessions(Tail(class_list))

(* classes_to_sessions: flat_map, then the ids in enumeration order.  The   *)
(* session with id i is element i + 1 of the sequence.                      *)
classes_to_sessions(class_list) ==
    LET flat == FlatMapSessions(class_list) IN
    [idx \in 1 .. Len(flat) |-> [flat[idx] EXCEPT !.session_id = idx - 1]]

(* Session::overlaps_with; "panic" is the failed assertion of add_hr.  The  *)
(* end of `other` is computed from self.duration, as in lines 115 and 119.  *)
overlaps_with(self, other, requested) ==
    IF self.day # other.day THEN "false"
    ELSE IF requested = "SameDay" THEN "true"
    ELSE LET requirement == IF self.mode # other.mode THEN "WithPadding" ELSE requested IN
         IF AddHrPanics(self.start_time, self.duration) THEN "panic"
         ELSE IF add_hr(self.start_time, self.duration) < other.start_time THEN "false"
         ELSE IF requirement = "Sharp"
                 /\ add_hr(self.start_time, self.duration) <= other.start_time THEN "false"
         ELSE IF AddHrPanics(other.start_time, self.duration) THEN "panic"
         ELSE IF add_hr(other.start_time, self.duration) < self.start_time THEN "false"
         ELSE IF requirement = "Sharp"
                 /\ add_hr(other.start_time, self.duration) <= self.start_time THEN "false"
         ELSE "true"

(* OverlapMatrix::get_overlap_index *)
get_overlap_index(num_sessions, first, second) == first * num_sessions + second

(* from_sessions without the `continue` on equal session ids *)
ComparedPairsWithSelf(session_list) ==
    (1 .. Len(session_list)) \X (1 .. Len(session_list))

\* the ordered pairs from_sessions calls overlaps_with on
ComparedPairs(session_list) ==
    {p \in (1 .. Len(session_list)) \X (1 .. Len(session_list)) :
        session_list[p[1]].session_id # session_list[p[2]].session_id}

(* OverlapMatrix::from_sessions panics when one of its calls does *)
FromSessionsPanics(session_list, requirement) ==
    \E p \in ComparedPairs(session_list) :
        overlaps_with(session_list[p[1]], session_list[p[2]], requirement) = "panic"

(* OverlapMatrix::from_sessions: the bit set `overlaps` *)
from_sessions(session_list, requirement) ==
    {get_overlap_index(Len(session_list), session_list[p[1]].session_id,
                       session_list[p[2]].session_id)
     : p \in {q \in ComparedPairs(session_list) :
                 overlaps_with(session_list[q[1]], session_list[q[2]], requirement) = "true"}}

(* OverlapMatrix::is_overlap *)
is_overlap(overlaps, num_sessions, session_1, session_2) ==
    get_overlap_index(num_sessions, session_1, session_2) \in overlaps

-----------------------------------------------------------------------------
(* Problem construction in main_impl: the sessions, then the three matrices *)

MutIdle ==
    /\ availabilities = <<>>
    /\ solution = <<>>
    /\ before = <<>>
    /\ applied = <<>>
    /\ last_round = NoRound

BuildInit ==
    /\ MutIdle
    /\ EvalIdle
    /\ OrchIdle
    /\ SolveIdle
    /\ AvailIdle
    /\ classes \in ClassLists(MaxClasses)
    /\ sessions = <<>>
    /\ overlaps_sharp = {}
    /\ overlaps_padded = {}
    /\ overlaps_same_day = {}
    /\ build_pc = "classes"

\* the requirement whose matrix main_impl fails to build, "none" if all
\* three are built; they are built in the order Sharp, WithPadding, SameDay
FirstPanic(session_list) ==
    IF FromSessionsPanics(session_list, "Sharp") THEN "Sharp"
    ELSE IF FromSessionsPanics(session_list, "WithPadding") THEN "WithPadding"
    ELSE IF FromSessionsPanics(session_list, "SameDay") THEN "SameDay"
    ELSE "none"

(* main.rs 83-87: the sessions and the three overlap matrices *)
BuildOverlaps ==
    /\ build_pc = "classes"
    /\ LET built == classes_to_sessions(classes) IN
       /\ FirstPanic(built) = "none"
       /\ sessions' = built
       /\ overlaps_sharp' = from_sessions(built, "Sharp")
       /\ overlaps_padded' = from_sessions(built, "WithPadding")
       /\ overlaps_same_day' = from_sessions(built, "SameDay")
    /\ build_pc' = "built"
    /\ UNCHANGED <<classes, mutvars, evalvars, orchvars, solvevars, availvars>>

(* main.rs 83-87 when the assertion of add_hr fails inside from_sessions:   *)
(* the process aborts with the matrices before the failing one built        *)
BuildPanic ==
    /\ build_pc = "classes"
    /\ LET built == classes_to_sessions(classes)
           failing == FirstPanic(built)
       IN
       /\ failing # "none"
       /\ sessions' = built
       /\ overlaps_sharp' = IF failing = "Sharp"
                            THEN {} ELSE from_sessions(built, "Sharp")
       /\ overlaps_padded' = IF failing \in {"Sharp", "WithPadding"}
                             THEN {} ELSE from_sessions(built, "WithPadding")
       /\ overlaps_same_day' = {}
    /\ build_pc' = "panicked"
    /\ UNCHANGED <<classes, mutvars, evalvars, orchvars, solvevars, availvars>>

BuildNext == BuildOverlaps \/ BuildPanic

SpecBuild == BuildInit /\ [][BuildNext]_vars

SessionIdsOf(session_list) == {session_list[i].session_id : i \in 1 .. Len(session_list)}
SessionById(session_list, id) == session_list[id + 1]

\* the three matrices of a constructed problem
BuiltMatrices == {overlaps_sharp, overlaps_padded, overlaps_same_day}

\* C3: in each of the three matrices is_overlap(a, b) = is_overlap(b, a) for
\* all sessions a and b, whatever their durations.
C3_OverlapSymmetric ==
    build_pc = "built" =>
        \A overlaps \in BuiltMatrices :
        \A a \in SessionIdsOf(sessions), b \in SessionIdsOf(sessions) :
            is_overlap(overlaps, Len(sessions), a, b)
                = is_overlap(overlaps, Len(sessions), b, a)

\* C4: the Sharp matrix marks two distinct sessions exactly when they are on
\* the same day and s1 < s2 + d2 and s2 < s1 + d1 (same mode), or
\* s1 <= s2 + d2 and s2 <= s1 + d1 (different modes).
C4_SharpIsIntervalOverlap ==
    build_pc = "built" =>
        \A a \in SessionIdsOf(sessions), b \in SessionIdsOf(sessions) :
            LET first == SessionById(sessions, a)
                second == SessionById(sessions, b)
                s1 == first.start_time
                d1 == first.duration
                s2 == second.start_time
                d2 == second.duration
            IN  a # b =>
                (is_overlap(overlaps_sharp, Len(sessions), a, b)
                    <=> /\ first.day = second.day
                        /\ IF first.mode = second.mode
                           THEN s1 < s2 + d2 /\ s2 < s1 + d1
                           ELSE s1 <= s2 + d2 /\ s2 <= s1 + d1)

\* C5: Sharp.is_overlap(a, b) implies WithPadding.is_overlap(a, b), which
\* implies SameDay.is_overlap(a, b), and no matrix marks a session with itself.
C5_SharpInPaddedInSameDay ==
    build_pc = "built" =>
        \A a \in SessionIdsOf(sessions), b \in SessionIdsOf(sessions) :
            /\ is_overlap(overlaps_sharp, Len(sessions), a, b)
                  => is_overlap(overlaps_padded, Len(sessions), a, b)
            /\ is_overlap(overlaps_padded, Len(sessions), a, b)
                  => is_overlap(overlaps_same_day, Len(sessions), a, b)
            /\ \A overlaps \in BuiltMatrices :
                  ~is_overlap(overlaps, Len(sessions), a, a)

\* a constructed problem in which the three matrices are pairwise different
\* and none is empty
C5_Witness ==
    /\ build_pc = "built"
    /\ overlaps_sharp # {}
    /\ overlaps_sharp # overlaps_padded
    /\ overlaps_padded # overlaps_same_day

-----------------------------------------------------------------------------
(* Costs (costs.rs) *)

\* enum Constraint, in declaration order: the order EnumMap iterates in
Constraints ==
    << "AssignedPreferred", "AssignedPossible", "AssignedDislike", "AssignedImpossible",
       "UnassignedSession", "BelowMinTut", "BelowMinLab", "BelowMinClass",
       "AboveMaxTut", "AboveMaxLab", "AboveMaxClass", "DirectOverlap",
       "PaddedOverlap", "SameDayOverlap", "MismatchedInitialSolution" >>

ConstraintSet == {Constraints[i] : i \in 1 .. Len(Constraints)}

(* CostPossibility::Infinity; CostPossibility::Value(v) is the number v *)
Infinity == -1

\* CostValue values are below CostModulus (2^64 in the source)
CostModulus == 2 ^ CostBits

(* Option<CostValue>, and the panic of an overflowing `+` *)
SomeCost(value) == [kind |-> "Some", value |-> value]
NoCost == [kind |-> "None", value |-> 0]
CostPanic == [kind |-> "Panic", value |-> 0]

(* CostCount::new *)
NewCostCount == [c \in ConstraintSet |-> 0]

(* CostCount::add_cost and add_cost_1 *)
add_cost(counts, category, count) == [counts EXCEPT ![category] = @ + count]
add_cost_1(counts, category) == add_cost(counts, category, 1)

(* CostConfig::should_count *)
should_count(config, constraint) ==
    IF config[constraint] = Infinity THEN TRUE ELSE config[constraint] # 0

(* u64::checked_mul *)
checked_mul(a, b) == IF a * b >= CostModulus THEN NoCost ELSE SomeCost(a * b)

(* the closure of total_cost: the cost of one constraint *)
ConstraintCost(counts, config, constraint) ==
    IF config[constraint] = Infinity
    THEN (IF counts[constraint] > 0 THEN NoCost ELSE SomeCost(0))
    ELSE checked_mul(counts[constraint], config[constraint])

(* `.sum::<Option<CostValue>>()` over the constraints from index i on: the  *)
(* first None ends the iteration with None; the u64 `+` of the running sum  *)
(* panics on overflow when the build checks overflow and wraps otherwise.   *)
RECURSIVE SumFrom(_, _, _, _, _)
SumFrom(counts, config, checks, i, acc) ==
    IF i > Len(Constraints)
    THEN SomeCost(acc)
    ELSE LET term == ConstraintCost(counts, config, Constraints[i]) IN
         IF term.kind = "None" THEN NoCost
         ELSE IF acc + term.value >= CostModulus
              THEN (IF checks THEN CostPanic
                    ELSE SumFrom(counts, config, checks, i + 1,
                                 (acc + term.value) % CostModulus))
              ELSE SumFrom(counts, config, checks, i + 1, acc + term.value)

(* CostCount::total_cost *)
total_cost(counts, config, checks) == SumFrom(counts, config, checks, 1, 0)

-----------------------------------------------------------------------------
(* The evaluator (evaluator.rs, utils.rs) *)

(* TwoCombIter: the items next() yields from the given indices on, until    *)
(* its first None.  slice[i] of the source is slice[i + 1] here.            *)
RECURSIVE TwoCombIterFrom(_, _, _)
TwoCombIterFrom(slice, outer_index, inner_index) ==
    IF outer_index < Len(slice)
    THEN <<<<slice[inner_index + 1], slice[outer_index + 1]>>>>
         \o (IF inner_index = outer_index
             THEN TwoCombIterFrom(slice, outer_index + 1, 0)
             ELSE TwoCombIterFrom(slice, outer_index, inner_index + 1))
    ELSE <<>>

(* TwoCombIter::new(slice) iterated to its end *)
TwoCombIter(slice) == TwoCombIterFrom(slice, 1, 0)

\* the test that also counts a session without an initial assignment
differs_from_unset_initial(old_assignment, assigned) == old_assignment # assigned

(* evaluator.rs 87-92: if let Some(old_assignment) = the initial assignment, *)
(* and Some(old_assignment) != assignment                                    *)
differs_from_initial(old_assignment, assigned) ==
    old_assignment # None /\ old_assignment # assigned

(* evaluate, first loop: the sessions from index idx on, zipped with the    *)
(* assignment.  Returns the counts and the per-instructor allocations.      *)
RECURSIVE EvaluateSessions(_, _, _, _, _)
EvaluateSessions(assignment, problem, idx, counts, allocations) ==
    IF idx > Len(problem.sessions) \/ (idx - 1) \notin DOMAIN assignment
    THEN [counts |-> counts, allocations |-> allocations]
    ELSE LET session == problem.sessions[idx]
             assigned == assignment[idx - 1]
             availability ==
                 get_availability(problem.availabilities, session.session_id, assigned)
             counted ==
                 IF assigned # None
                 THEN add_cost_1(counts,
                        CASE availability = "Impossible" -> "AssignedImpossible"
                          [] availability = "Dislike" -> "AssignedDislike"
                          [] availability = "Possible" -> "AssignedPossible"
                          [] availability = "Preferred" -> "AssignedPreferred")
                 ELSE add_cost_1(counts, "UnassignedSession")
             allocated ==
                 IF assigned # None
                 THEN [allocations EXCEPT ![assigned + 1] = Append(@, session.session_id)]
                 ELSE allocations
             old_assignment == problem.initial_solution[session.session_id]
             mismatched ==
                 IF /\ should_count(problem.cost_config, "MismatchedInitialSolution")
                    /\ differs_from_initial(old_assignment, assigned)
                 THEN add_cost_1(counted, "MismatchedInitialSolution")
                 ELSE counted
         IN  EvaluateSessions(assignment, problem, idx + 1, mismatched, allocated)

(* the closure add_minmax_cost; `actual as u8` truncates to eight bits *)
add_minmax_cost(counts, actual_usize, min, max, below, above) ==
    LET actual == actual_usize % 256
        low == IF actual < min THEN add_cost(counts, below, min - actual) ELSE counts
    IN  IF actual > max THEN add_cost(low, above, actual - max) ELSE low

(* evaluator.rs 121-142: the three calls of add_minmax_cost for one         *)
(* instructor                                                               *)
add_minmax_costs(counts, requirement, num_tuts, num_labs, num_classes) ==
    LET tuts == add_minmax_cost(counts, num_tuts, requirement.min_tutes,
                                requirement.max_tutes, "BelowMinTut", "AboveMaxTut")
        labs == add_minmax_cost(tuts, num_labs, requirement.min_lab_assists,
                                requirement.max_lab_assists, "BelowMinLab", "AboveMaxLab")
    IN  add_minmax_cost(labs, num_classes, requirement.min_total_classes,
                        requirement.max_total_classes, "BelowMinClass", "AboveMaxClass")

(* evaluate, the loop over TwoCombIter::new(instructor_allocation) *)
RECURSIVE EvaluatePairs(_, _, _, _)
EvaluatePairs(pairs, problem, idx, counts) ==
    IF idx > Len(pairs)
    THEN counts
    ELSE LET session_1 == pairs[idx][1]
             session_2 == pairs[idx][2]
             n == Len(problem.sessions)
         IN  EvaluatePairs(pairs, problem, idx + 1,
                IF is_overlap(problem.overlap_sharp, n, session_1, session_2)
                THEN add_cost_1(counts, "DirectOverlap")
                ELSE IF /\ should_count(problem.cost_config, "PaddedOverlap")
                        /\ is_overlap(problem.overlap_padded, n, session_1, session_2)
                THEN add_cost_1(counts, "PaddedOverlap")
                ELSE IF /\ should_count(problem.cost_config, "SameDayOverlap")
                        /\ is_overlap(problem.overlap_same_day, n, session_1, session_2)
                THEN add_cost_1(counts, "SameDayOverlap")
                ELSE counts)

(* evaluate, second loop: the instructors from index idx on, zipped with    *)
(* their allocations                                                        *)
RECURSIVE EvaluateInstructors(_, _, _, _)
EvaluateInstructors(problem, allocations, idx, counts) ==
    IF idx > Len(problem.instructors) \/ idx > Len(allocations)
    THEN counts
    ELSE LET requirement == problem.instructors[idx]
             instructor_allocation == allocations[idx]
             num_classes == Len(instructor_allocation)
             num_tuts == Len(SelectSeq(instructor_allocation,
                             LAMBDA id : problem.sessions[id + 1].typ = "TutLab"))
             num_labs == num_classes - num_tuts
             both == add_minmax_costs(counts, requirement, num_tuts, num_labs, num_classes)
         IN  EvaluateInstructors(problem, allocations, idx + 1,
                EvaluatePairs(TwoCombIter(instructor_allocation), problem, 1, both))

(* Option<EvalBuffer> *)
NoBuffer == [some |-> FALSE, instructor_allocations |-> <<>>]
SomeBuffer(allocations) == [some |-> TRUE, instructor_allocations |-> allocations]

\* evaluate that pushes onto the buckets as they come in the buffer
evaluate_without_clear(assignment, problem, buffer) ==
    LET reused == IF buffer.some
                  THEN buffer.instructor_allocations
                  ELSE [j \in 1 .. Len(problem.instructors) |-> <<>>]
        first == EvaluateSessions(assignment, problem, 1, NewCostCount, reused)
    IN  [counts |-> EvaluateInstructors(problem, first.allocations, 1, first.counts),
         buffer |-> first.allocations]

(* Solution::evaluate; returns the CostCount and the EvalBuffer.  Element   *)
(* j + 1 of the allocations is the bucket of instructor j.                  *)
evaluate(assignment, problem, buffer) ==
    LET reused == IF buffer.some
                  THEN buffer.instructor_allocations
                  ELSE [j \in 1 .. Len(problem.instructors) |-> <<>>]
        cleared == [j \in 1 .. Len(reused) |-> <<>>]
        first == EvaluateSessions(assignment, problem, 1, NewCostCount, cleared)
    IN  [counts |-> EvaluateInstructors(problem, first.allocations, 1, first.counts),
         buffer |-> first.allocations]

-----------------------------------------------------------------------------
(* Evaluating a solution under a cost config, and again after one weight    *)
(* of the config has been raised                                            *)

\* the Problem bundle of main.rs 130-139
Problem ==
    [sessions |-> sessions, instructors |-> instructors,
     availabilities |-> availabilities,
     overlap_sharp |-> overlaps_sharp, overlap_padded |-> overlaps_padded,
     overlap_same_day |-> overlaps_same_day,
     cost_config |-> cost_config, initial_solution |-> initial_solution]

EvalClass(start, ignore_tut, ignore_lab) ==
    [day |-> "Mon", start |-> start, mode |-> "F2F",
     ignore_tut |-> ignore_tut, ignore_lab |-> ignore_lab]

\* the class lists that are evaluated: a class with both sessions followed by
\* a tut+lab that starts when it ends; two lab assists an hour apart; two
\* overlapping tut+labs
EvalClassLists ==
    { <<EvalClass(LatestClassStart - 3, FALSE, FALSE),
        EvalClass(LatestClassStart, FALSE, TRUE)>>,
      <<EvalClass(LatestClassStart - 3, TRUE, FALSE),
        EvalClass(LatestClassStart, TRUE, FALSE)>>,
      <<EvalClass(LatestClassStart - 1, FALSE, TRUE),
        EvalClass(LatestClassStart, FALSE, TRUE)>> }

(* struct ClassTypeRequirement *)
ClassTypeRequirement(minT, maxT, minA, maxA) ==
    [min_tutes |-> minT, max_tutes |-> maxT,
     min_lab_assists |-> minA, max_lab_assists |-> maxA,
     min_total_classes |-> minT + minA, max_total_classes |-> maxT + maxA]

\* the instructor lists that are evaluated: everyone may take up to one
\* session of each type, or everyone has to take exactly one of each
EvalInstructorLists ==
    { [j \in 1 .. EvalInstructors |-> ClassTypeRequirement(0, 1, 0, 1)],
      [j \in 1 .. EvalInstructors |-> ClassTypeRequirement(1, 1, 1, 1)] }

EvalInstructorIds == 0 .. (EvalInstructors - 1)

(* Constraint::default_value, and `explicit` for the weights that the       *)
(* config has to give                                                       *)
ConfigWith(explicit, given) ==
    [c \in ConstraintSet |->
        IF c \in DOMAIN given THEN given[c]
        ELSE IF c = "AssignedPreferred" THEN 0
        ELSE IF c = "AssignedImpossible" THEN Infinity
        ELSE IF c = "MismatchedInitialSolution" THEN 0
        ELSE explicit]

\* the configs a run starts from
BaseConfigs ==
    { ConfigWith(1, <<>>),
      ConfigWith(1, [DirectOverlap |-> 3, PaddedOverlap |-> 0, SameDayOverlap |-> 2]),
      ConfigWith(1, [PaddedOverlap |-> 0, SameDayOverlap |-> Infinity]),
      ConfigWith(CostModulus \div 2, [MismatchedInitialSolution |-> 1]) }

\* the weights a weight is raised to
RaisedWeights == {1, 2, CostModulus \div 2, CostModulus - 1}

EvalInit ==
    /\ OrchIdle
    /\ SolveIdle
    /\ AvailIdle
    /\ before = <<>>
    /\ applied = <<>>
    /\ last_round = NoRound
    /\ classes \in EvalClassLists
    /\ sessions = classes_to_sessions(classes)
    /\ overlaps_sharp = from_sessions(sessions, "Sharp")
    /\ overlaps_padded = from_sessions(sessions, "WithPadding")
    /\ overlaps_same_day = from_sessions(sessions, "SameDay")
    /\ build_pc = "built"
    /\ instructors \in EvalInstructorLists
    /\ availabilities \in AvailabilityPatterns(SessionIdsOf(sessions) \X EvalInstructorIds)
    /\ initial_solution \in {[s \in SessionIdsOf(sessions) |-> None],
                             [s \in SessionIdsOf(sessions) |-> 0]}
    /\ solution \in [SessionIdsOf(sessions) -> EvalInstructorIds \cup {None}]
    /\ cost_config \in BaseConfigs
    /\ overflow_checks \in BOOLEAN
    /\ costs = NewCostCount
    /\ total = NoCost
    /\ previous = <<>>
    /\ eval_pc = "start"

(* solution.evaluate(problem, None).0.total_cost(problem.cost_config) *)
Evaluate ==
    /\ eval_pc = "start"
    /\ costs' = evaluate(solution, Problem, NoBuffer).counts
    /\ total' = total_cost(costs', cost_config, overflow_checks)
    /\ eval_pc' = "evaluated"
    /\ UNCHANGED <<mutvars, buildvars, orchvars, solvevars, availvars, instructors, initial_solution,
                   cost_config, overflow_checks, previous>>

(* the same solution and problem evaluated under a config that differs in   *)
(* one finite weight, which is larger                                       *)
RaiseWeight ==
    /\ eval_pc = "evaluated"
    /\ total.kind # "Panic"
    /\ \E constraint \in ConstraintSet, weight \in RaisedWeights :
        /\ cost_config[constraint] # Infinity
        /\ weight > cost_config[constraint]
        /\ previous' = [cost_config |-> cost_config, total |-> total, costs |-> costs,
                        constraint |-> constraint]
        /\ cost_config' = [cost_config EXCEPT ![constraint] = weight]
        /\ costs' = evaluate(solution, [Problem EXCEPT !.cost_config = cost_config'],
                             NoBuffer).counts
        /\ total' = total_cost(costs', cost_config', overflow_checks)
    /\ eval_pc' = "raised"
    /\ UNCHANGED <<mutvars, buildvars, orchvars, solvevars, availvars, instructors, initial_solution,
                   overflow_checks>>

\* the buffers a caller can hand to evaluate: none, a fresh one, or the one
\* returned by the evaluation of another assignment (solver.rs 77-78), here
\* one that gives every session to the same instructor
EvalBuffers(origin, other) ==
    IF origin = "absent" THEN NoBuffer
    ELSE IF origin = "fresh" THEN SomeBuffer([j \in 1 .. Len(instructors) |-> <<>>])
    ELSE SomeBuffer(evaluate(other, Problem, NoBuffer).buffer)

(* solution.evaluate(problem, buffer) on the solution and problem that were *)
(* evaluated before                                                         *)
EvaluateAgain ==
    /\ eval_pc = "evaluated"
    /\ \E origin \in {"absent", "fresh", "recycled"},
          other \in {[s \in SessionIdsOf(sessions) |-> j] : j \in EvalInstructorIds}
                     \cup {solution} :
        /\ (origin = "recycled") = (other # solution)
        /\ \E buffer \in {EvalBuffers(origin, other)} :
            /\ previous' = [cost_config |-> cost_config, total |-> total, costs |-> costs,
                            origin |-> origin, buffer |-> buffer]
            /\ costs' = evaluate(solution, Problem, buffer).counts
        /\ total' = total_cost(costs', cost_config, overflow_checks)
    /\ eval_pc' = "evaluated_again"
    /\ UNCHANGED <<mutvars, buildvars, orchvars, solvevars, availvars, instructors,
                   initial_solution, cost_config, overflow_checks>>

EvalNext == Evaluate \/ RaiseWeight \/ EvaluateAgain

SpecCost == EvalInit /\ [][EvalNext]_vars

\* the order of total costs: None is infinity
CostLeq(a, b) == b.kind = "None" \/ (a.kind = "Some" /\ b.kind = "Some" /\ a.value <= b.value)

\* the sum over the finite-weight constraints of count times weight
RECURSIVE FiniteSum(_, _, _)
FiniteSum(counts, config, i) ==
    IF i > Len(Constraints) THEN 0
    ELSE (IF config[Constraints[i]] = Infinity THEN 0
          ELSE counts[Constraints[i]] * config[Constraints[i]])
         + FiniteSum(counts, config, i + 1)

InfiniteCounted(counts, config) ==
    \E c \in ConstraintSet : config[c] = Infinity /\ counts[c] > 0

\* C6: raising one finite weight of the config never lowers the total cost of
\* a solution.
C6_CostMonotone ==
    (eval_pc = "raised" /\ total.kind # "Panic") => CostLeq(previous.total, total)

\* C7: total_cost is None when a constraint of infinite weight has a positive
\* count, and otherwise the sum of count times weight over the constraints
\* of finite weight.
C7_TotalCostIsInfinityOrSum ==
    eval_pc \in {"evaluated", "raised"} =>
        total = IF InfiniteCounted(costs, cost_config)
                THEN NoCost
                ELSE SomeCost(FiniteSum(costs, cost_config, 1))

\* C8: when no constraint of infinite weight is counted and every product
\* fits but their sum does not, total_cost is None.
C8_SumOverflowIsNone ==
    ( /\ eval_pc \in {"evaluated", "raised"}
      /\ ~InfiniteCounted(costs, cost_config)
      /\ \A c \in ConstraintSet :
            cost_config[c] # Infinity => costs[c] * cost_config[c] < CostModulus
      /\ FiniteSum(costs, cost_config, 1) >= CostModulus )
    => total = NoCost

-----------------------------------------------------------------------------
(* The orchestrator: the attempts are queued on a pool of args.cpus         *)
(* threads, and every attempt compares its result with the best_result      *)
(* slot under the slot's mutex                                              *)

(* struct SolverSeed *)
SolverSeed(num_rounds, rng_seed) == [num_rounds |-> num_rounds, rng_seed |-> rng_seed]

\* u64::MAX + 1 at the width of the model
SeedModulus == 2 ^ SeedBits

(* struct SolverOutput inside an Option; the log and the solution of the    *)
(* output are left out                                                      *)
NoOutput == [some |-> FALSE, seed |-> SolverSeed(0, 0), final_cost |-> NoCost]
SolverOutput(seed, final_cost) == [some |-> TRUE, seed |-> seed, final_cost |-> final_cost]

\* the final costs solve_once may return
FinalCosts == {NoCost} \cup {SomeCost(value) : value \in 1 .. MaxFinalCost}

\* better_than with <= for <
better_than_or_equal(self, other) ==
    LET old == IF other.some THEN other.final_cost ELSE NoCost
    IN  IF self.final_cost.kind = "None" THEN FALSE
        ELSE IF old.kind = "None" THEN TRUE
        ELSE self.final_cost.value <= old.value

(* SolverOutput::better_than *)
better_than(self, other) ==
    LET old == IF other.some THEN other.final_cost ELSE NoCost
    IN  IF self.final_cost.kind = "None" THEN FALSE
        ELSE IF old.kind = "None" THEN TRUE
        ELSE self.final_cost.value < old.value

\* a closure run_with_seed(seed) handed to pool_scope.execute
Job(seed) ==
    [seed |-> seed, overflow |-> FALSE, pc |-> "queued", new_result |-> NoOutput,
     lock_count |-> 0]

JobIds == 1 .. Len(jobs)
DeadThreads == Cardinality({k \in JobIds : jobs[k].pc = "dead"})
BusyThreads ==
    Cardinality({k \in JobIds : jobs[k].pc \in {"solved", "locked", "emitting", "writing", "storing"}})

OrchInit ==
    /\ MutIdle
    /\ BuildIdle
    /\ SolveIdle
    /\ AvailIdle
    /\ instructors = <<>>
    /\ initial_solution = <<>>
    /\ cost_config = <<>>
    /\ overflow_checks \in BOOLEAN
    /\ costs = <<>>
    /\ total = <<>>
    /\ previous = <<>>
    /\ eval_pc = "idle"
    /\ args \in [cpus : 1 .. MaxCpus, start_seed : {None, 0, SeedModulus - 1},
                 total_attempts : 0 .. MaxAttempts, num_rounds : {40}]
    /\ orch_pc = "construct"
    /\ next_attempt = 0
    /\ jobs = <<>>
    /\ best_result = NoOutput
    /\ best_lock = "free"
    /\ emissions = <<>>
    /\ rejections = <<>>
    /\ outputter_lock = "free"
    /\ main_result = "Running"
    /\ exit_code = None

\* the kinds of Err the construction in main_impl returns through `?`
ConstructionErrors ==
    {"MalformedInput", "MissingApplication", "OverrideMatchesNothing",
     "InconsistentInitialAssignment", "BadCostConfig"}

(* main.rs 60-151: main_impl up to the thread pool; every step of the      *)
(* construction either goes on or returns its Err                           *)
Construct ==
    /\ orch_pc = "construct"
    /\ \E outcome \in {"Ok"} \cup ConstructionErrors :
        IF outcome = "Ok"
        THEN orch_pc' = "start" /\ UNCHANGED main_result
        ELSE orch_pc' = "returned" /\ main_result' = outcome
    /\ UNCHANGED <<mutvars, buildvars, evalvars, solvevars, availvars, outputter_lock,
                   exit_code, args, next_attempt, jobs, best_result, best_lock, emissions,
                   rejections>>

(* main.rs 174-183: the warm-up is queued when no start seed was given *)
StartSolving ==
    /\ orch_pc = "start"
    /\ jobs' = IF args.start_seed = None
               THEN Append(jobs, Job(SolverSeed(args.num_rounds \div 20, 0)))
               ELSE jobs
    /\ orch_pc' = "attempts"
    /\ UNCHANGED <<mutvars, buildvars, evalvars, solvevars, availvars, outputter_lock,
                   main_result, exit_code, args, next_attempt, best_result, best_lock,
                   emissions, rejections>>

(* main.rs 189: args.start_seed.unwrap_or(1) + i in u64, evaluated by the  *)
(* closure on its thread; on overflow the build either panics or wraps     *)
attempt_seed(start_seed, i) ==
    LET sum == (IF start_seed = None THEN 1 ELSE start_seed) + i
    IN  [overflow |-> sum >= SeedModulus, rng_seed |-> sum % SeedModulus]

(* main.rs 185-192: one pass of the attempts loop queues a closure that    *)
(* holds args and i                                                        *)
QueueAttempt ==
    /\ orch_pc = "attempts"
    /\ next_attempt < args.total_attempts
    /\ \E seed \in {attempt_seed(args.start_seed, next_attempt)} :
        jobs' = Append(jobs, [Job(SolverSeed(args.num_rounds, seed.rng_seed))
                                  EXCEPT !.overflow = seed.overflow])
    /\ next_attempt' = next_attempt + 1
    /\ UNCHANGED <<mutvars, buildvars, evalvars, solvevars, availvars, outputter_lock,
                   main_result, exit_code, args, orch_pc, best_result, best_lock,
                   emissions, rejections>>

(* the closure of thread_pool.scoped returns; from here the scope waits for *)
(* the queued jobs                                                          *)
EndOfScope ==
    /\ orch_pc = "attempts"
    /\ next_attempt = args.total_attempts
    /\ orch_pc' = "join"
    /\ UNCHANGED <<mutvars, buildvars, evalvars, solvevars, availvars, outputter_lock,
                   main_result, exit_code, args, next_attempt, jobs, best_result,
                   best_lock, emissions, rejections>>

(* main.rs 159, 187-190: a free thread of the pool takes the job at the    *)
(* head of the queue; the closure builds its SolverSeed, which panics the  *)
(* thread when the addition overflows in a build with overflow checks, and *)
(* runs solve_once, which ends with one of the final costs                 *)
SolveOnce(k) ==
    /\ jobs[k].pc = "queued"
    /\ \A earlier \in 1 .. (k - 1) : jobs[earlier].pc # "queued"
    /\ BusyThreads + DeadThreads < args.cpus
    /\ IF jobs[k].overflow /\ overflow_checks
       THEN jobs' = [jobs EXCEPT ![k].pc = "dead"]
       ELSE \E final_cost \in FinalCosts :
                jobs' = [jobs EXCEPT ![k].pc = "solved",
                                     ![k].new_result = SolverOutput(jobs[k].seed, final_cost)]
    /\ UNCHANGED <<mutvars, buildvars, evalvars, solvevars, availvars, outputter_lock,
                   main_result, exit_code, args, orch_pc, next_attempt, best_result,
                   best_lock, emissions, rejections>>

\* LockBestResult on a mutex that does not exclude
LockBestResultUnguarded(k) ==
    /\ jobs[k].pc = "solved"
    /\ best_lock # "poisoned"
    /\ best_lock' = "held"
    /\ jobs' = [jobs EXCEPT ![k].pc = "locked", ![k].lock_count = @ + 1]
    /\ UNCHANGED <<mutvars, buildvars, evalvars, solvevars, availvars, outputter_lock,
                   main_result, exit_code, args, orch_pc, next_attempt, best_result,
                   emissions, rejections>>

(* main.rs 160: best_result.lock().unwrap() on a mutex that is free *)
LockBestResult(k) ==
    /\ jobs[k].pc = "solved"
    /\ best_lock = "free"
    /\ best_lock' = "held"
    /\ jobs' = [jobs EXCEPT ![k].pc = "locked", ![k].lock_count = @ + 1]
    /\ UNCHANGED <<mutvars, buildvars, evalvars, solvevars, availvars, outputter_lock,
                   main_result, exit_code, args, orch_pc, next_attempt, best_result,
                   emissions, rejections>>

(* main.rs 160: best_result.lock().unwrap() on a poisoned mutex panics *)
LockPoisoned(k) ==
    /\ jobs[k].pc = "solved"
    /\ best_lock = "poisoned"
    /\ jobs' = [jobs EXCEPT ![k].pc = "dead"]
    /\ UNCHANGED <<mutvars, buildvars, evalvars, solvevars, availvars, outputter_lock,
                   main_result, exit_code, args, orch_pc, next_attempt, best_result,
                   best_lock, emissions, rejections>>

(* main.rs 162-170: the comparison; the else branch prints and the guard of *)
(* the mutex is dropped                                                     *)
Compare(k) ==
    /\ jobs[k].pc = "locked"
    /\ IF better_than(jobs[k].new_result, best_result)
       THEN /\ jobs' = [jobs EXCEPT ![k].pc = "emitting"]
            /\ UNCHANGED <<best_lock, rejections>>
       ELSE /\ rejections' = Append(rejections, jobs[k].new_result)
            /\ best_lock' = "free"
            /\ jobs' = [jobs EXCEPT ![k].pc = "done"]
    /\ UNCHANGED <<mutvars, buildvars, evalvars, solvevars, availvars, outputter_lock,
                   main_result, exit_code, args, orch_pc, next_attempt, best_result,
                   emissions>>

(* solution_output.rs 180: output_solution takes OUTPUTTER_MUTEX *)
LockOutputter(k) ==
    /\ jobs[k].pc = "emitting"
    /\ outputter_lock = "free"
    /\ outputter_lock' = "held"
    /\ jobs' = [jobs EXCEPT ![k].pc = "writing"]
    /\ UNCHANGED <<mutvars, buildvars, evalvars, solvevars, availvars, main_result,
                   exit_code, args, orch_pc, next_attempt, best_result, best_lock,
                   emissions, rejections>>

(* main.rs 163: output_solution(problem, &new_result).unwrap(); the files   *)
(* are written and the outputter guard is dropped; an Err of a write is     *)
(* returned with the guard dropped, and the unwrap panics the thread while  *)
(* it holds the best_result mutex                                           *)
OutputSolution(k) ==
    /\ jobs[k].pc = "writing"
    /\ outputter_lock' = "free"
    /\ \E written \in BOOLEAN :
        IF written
        THEN /\ emissions' = Append(emissions, jobs[k].new_result)
             /\ jobs' = [jobs EXCEPT ![k].pc = "storing"]
             /\ UNCHANGED best_lock
        ELSE /\ best_lock' = "poisoned"
             /\ jobs' = [jobs EXCEPT ![k].pc = "dead"]
             /\ UNCHANGED emissions
    /\ UNCHANGED <<mutvars, buildvars, evalvars, solvevars, availvars, main_result,
                   exit_code, args, orch_pc, next_attempt, best_result, rejections>>

\* StoreBestResult that keeps the guard of the mutex
StoreBestResultKeepsGuard(k) ==
    /\ jobs[k].pc = "storing"
    /\ best_result' = jobs[k].new_result
    /\ jobs' = [jobs EXCEPT ![k].pc = "done"]
    /\ UNCHANGED <<mutvars, buildvars, evalvars, solvevars, availvars, outputter_lock,
                   main_result, exit_code, args, orch_pc, next_attempt, emissions,
                   rejections, best_lock>>

(* main.rs 164: *best_result = Some(new_result), and the guard is dropped *)
StoreBestResult(k) ==
    /\ jobs[k].pc = "storing"
    /\ best_result' = jobs[k].new_result
    /\ best_lock' = "free"
    /\ jobs' = [jobs EXCEPT ![k].pc = "done"]
    /\ UNCHANGED <<mutvars, buildvars, evalvars, solvevars, availvars, outputter_lock,
                   main_result, exit_code, args, orch_pc, next_attempt, emissions,
                   rejections>>

(* thread_pool.scoped returns when every job has run, and panics when a     *)
(* thread of the pool has panicked                                          *)
JoinAll ==
    /\ orch_pc = "join"
    /\ \A k \in JobIds :
        \/ jobs[k].pc \in {"done", "dead"}
        \/ jobs[k].pc = "queued" /\ DeadThreads = args.cpus
    /\ orch_pc' = IF DeadThreads = 0 THEN "returned" ELSE "panicked"
    /\ main_result' = IF DeadThreads = 0 THEN "Ok" ELSE main_result
    /\ UNCHANGED <<mutvars, buildvars, evalvars, solvevars, availvars, outputter_lock,
                   exit_code, args, next_attempt, jobs, best_result,
                   best_lock, emissions, rejections>>

(* main.rs 198-203: main matches the result of main_impl; Ok does nothing, *)
(* Err is printed with println!; either way main returns normally          *)
MainReturns ==
    /\ orch_pc = "returned"
    /\ exit_code' = 0
    /\ orch_pc' = "exited"
    /\ UNCHANGED <<mutvars, buildvars, evalvars, solvevars, availvars, outputter_lock,
                   main_result, args, next_attempt, jobs, best_result, best_lock,
                   emissions, rejections>>

(* the panic of thread_pool.scoped unwinds the main thread: exit code 101 *)
MainPanics ==
    /\ orch_pc = "panicked"
    /\ exit_code' = 101
    /\ orch_pc' = "exited"
    /\ UNCHANGED <<mutvars, buildvars, evalvars, solvevars, availvars, outputter_lock,
                   main_result, args, next_attempt, jobs, best_result, best_lock,
                   emissions, rejections>>

OrchNext ==
    \/ Construct
    \/ StartSolving
    \/ QueueAttempt
    \/ EndOfScope
    \/ \E k \in JobIds : SolveOnce(k)
    \/ \E k \in JobIds : LockBestResult(k)
    \/ \E k \in JobIds : LockPoisoned(k)
    \/ \E k \in JobIds : Compare(k)
    \/ \E k \in JobIds : LockOutputter(k)
    \/ \E k \in JobIds : OutputSolution(k)
    \/ \E k \in JobIds : StoreBestResult(k)
    \/ JoinAll
    \/ MainReturns
    \/ MainPanics

SpecOrch == OrchInit /\ [][OrchNext]_vars

\* new is strictly better than the slot: finite against an empty or infinite
\* slot, or a strictly smaller finite cost
StrictlyBetter(new, slot) ==
    /\ new.final_cost.kind = "Some"
    /\ \/ ~slot.some
       \/ slot.final_cost.kind = "None"
       \/ new.final_cost.value < slot.final_cost.value

StrictlyDecreasing(outputs) ==
    \A a, b \in 1 .. Len(outputs) :
        a < b => /\ outputs[a].final_cost.kind = "Some"
                 /\ outputs[b].final_cost.kind = "Some"
                 /\ outputs[b].final_cost.value < outputs[a].final_cost.value

\* C9: once all attempts have completed, the best_result slot holds the
\* output of an attempt whose final cost is minimal among all attempts.
C9_SlotHoldsMinimalAttempt ==
    (main_result = "Ok" /\ jobs # <<>>) =>
        /\ \E k \in JobIds : best_result = jobs[k].new_result
        /\ \A k \in JobIds : CostLeq(best_result.final_cost, jobs[k].new_result.final_cost)

\* C10: the slot is replaced and a result emitted only by an attempt that is
\* strictly better than the slot, so the costs of the emissions strictly
\* decrease and the last emission is the final best.
C10_ReplacedOnlyWhenStrictlyBetter ==
    /\ [][(best_result' # best_result \/ emissions' # emissions) =>
            \E k \in JobIds :
                /\ jobs[k].pc \in {"writing", "storing"}
                /\ jobs'[k].pc \in {"storing", "done"}
                /\ StrictlyBetter(jobs[k].new_result, best_result)
                /\ emissions' # emissions =>
                        emissions' = Append(emissions, jobs[k].new_result)
                /\ best_result' # best_result =>
                        best_result' = jobs[k].new_result]_vars
    /\ [](/\ StrictlyDecreasing(emissions)
          /\ (orch_pc \in {"returned", "panicked", "exited"} /\ emissions # <<>>) =>
                best_result = emissions[Len(emissions)])

C10_Witness ==
    /\ main_result = "Ok"
    /\ Len(emissions) >= 2
    /\ best_result = emissions[Len(emissions)]
    /\ \E r \in 1 .. Len(rejections) :
        rejections[r].final_cost = best_result.final_cost


\* C11: when the attempts have run to completion, a best solution has been
\* produced and written: the best_result slot is non-empty and at least one
\* emission happened.
C11_NoPartialSuccess ==
    (main_result = "Ok" /\ jobs # <<>>) => (best_result.some /\ Len(emissions) >= 1)


\* C12: the process exits with code 0 when main_impl succeeds and with a
\* nonzero code when main_impl returns an Err of the construction.
C12_ExitCodeTellsFailure ==
    exit_code # None =>
        /\ main_result = "Ok" => exit_code = 0
        /\ main_result \in ConstructionErrors => exit_code # 0

\* the jobs between best_result.lock() and the drop of its guard
InCriticalSection == {k \in JobIds : jobs[k].pc \in {"locked", "emitting", "writing", "storing"}}

\* C13: at most one worker is between its comparison and its write to the
\* slot, at most one is inside output_solution, and from a worker's comparison
\* to its write no other worker changes the slot or emits.
C13_EmissionExclusiveAndAtomic ==
    /\ [](/\ Cardinality(InCriticalSection) <= 1
          /\ Cardinality({k \in JobIds : jobs[k].pc = "writing"}) <= 1
          /\ \A k \in JobIds : jobs[k].pc = "writing" => outputter_lock = "held")
    /\ [][\A k \in InCriticalSection :
            /\ best_result' # best_result => (jobs[k].pc = "storing" /\ jobs'[k].pc = "done")
            /\ emissions' # emissions => (jobs[k].pc = "writing" /\ jobs'[k].pc = "storing")
            /\ rejections' # rejections => (jobs[k].pc = "locked" /\ jobs'[k].pc = "done")
            /\ \A other \in JobIds \ {k} : jobs'[other].pc \notin {"locked", "emitting", "writing", "storing"}]_vars

C13_Witness ==
    \E k, waiting \in JobIds :
        /\ jobs[k].pc = "writing"
        /\ jobs[waiting].pc = "solved"
        /\ best_result.some


\* the scheduler lets every thread that can take a step take one
SpecOrchFair == OrchInit /\ [][OrchNext]_vars /\ WF_vars(OrchNext)

\* the number of closures main_impl hands to the pool
ConfiguredAttempts == args.total_attempts + (IF args.start_seed = None THEN 1 ELSE 0)

-----------------------------------------------------------------------------
(* solve_once: one run, and next to it a second run on the same problem,    *)
(* initial solution and seed.  fastrand::Rng::with_seed is a function of    *)
(* the seed, so the rngs of the two runs yield the same values: every round *)
(* gives both runs the same draws.                                          *)

\* let reporting_interval = 25000
ReportingInterval == 25000

\* the values of start_time.elapsed() formatted with {:.3}
ElapsedTimes == {"0.001", "0.002"}

\* a line of the log: its text and the value formatted into it
LogLine(text, value) == [text |-> text, value |-> value]

\* the locals of solve_once; outcome tells what the last round did
RunState(assignment, cost, buffer, round, pc, lines, outcome) ==
    [solution |-> assignment, current_cost |-> cost, eval_buffer_helper |-> buffer,
     round_num |-> round, pc |-> pc, log |-> lines, outcome |-> outcome]

\* solve_begin that takes the initial cost for None without evaluating
solve_begin_unevaluated(problem, initial, solver_seed, checks) ==
    LET counts == evaluate(initial, problem, NoBuffer).counts
        cost == NoCost
    IN  RunState(initial, cost, NoBuffer, 0, "rounds",
                 <<LogLine("Beginning solve with seed", solver_seed),
                   LogLine("Initial cost", cost),
                   LogLine("Warning: initial cost is None", cost),
                   LogLine("Breakdown of initial cost", counts)>>,
                 "none")

(* solver.rs 33-62: the clone of the initial solution, its cost, and the    *)
(* head of the log                                                          *)
solve_begin(problem, initial, solver_seed, checks) ==
    LET counts == evaluate(initial, problem, NoBuffer).counts
        cost == total_cost(counts, problem.cost_config, checks)
        head == <<LogLine("Beginning solve with seed", solver_seed),
                  LogLine("Initial cost", cost)>>
        warning == IF cost.kind = "None"
                   THEN <<LogLine("Warning: initial cost is None", cost)>>
                   ELSE <<>>
    IN  IF cost.kind = "Panic"
        THEN RunState(initial, cost, NoBuffer, 0, "panicked", <<>>, "panic")
        ELSE RunState(initial, cost, NoBuffer, 0, "rounds",
                      head \o warning \o <<LogLine("Breakdown of initial cost", counts)>>,
                      "none")

\* the acceptance test that leaves an equal cost to the draw
is_better_strict(current, new_cost, draw) ==
    IF current.kind = "None" THEN TRUE
    ELSE IF new_cost.value < current.value THEN TRUE
    ELSE draw

(* solver.rs 88-100: is_better; `draw` is rng.f32() < exp(-cost_diff /      *)
(* temperature).  rng.f32() is below 1 and the temperature is at least 0.1, *)
(* so the test is true whenever cost_diff is 0.                             *)
is_better(current, new_cost, draw) ==
    IF current.kind = "None" THEN TRUE
    ELSE IF new_cost.value < current.value THEN TRUE
    ELSE IF new_cost.value = current.value THEN TRUE
    ELSE draw

\* the round of an infinite new cost that keeps the mutation
infinite_round_keeps_mutation(run, applied_solution, mutation) ==
    [run EXCEPT !.solution = applied_solution, !.outcome = "infinite"]

\* the round of an infinite new cost that takes the new cost
infinite_round_takes_cost(run, applied_solution, mutation) ==
    [run EXCEPT !.solution = reverse_mutation(applied_solution, mutation),
                !.current_cost = NoCost, !.outcome = "infinite"]

(* solver.rs 80-86: the new total cost is None: reverse_mutation, continue *)
infinite_round(run, applied_solution, mutation) ==
    [run EXCEPT !.solution = reverse_mutation(applied_solution, mutation),
                !.outcome = "infinite"]

(* solver.rs 64-110: one round, given the mutation make_random returned and *)
(* the draw of the acceptance test                                          *)
solve_round(run, problem, checks, mutation, draw) ==
    LET reported == IF run.round_num % ReportingInterval = 0
                    THEN Append(run.log,
                                LogLine("After rounds current cost is", run.current_cost))
                    ELSE run.log
        started == [run EXCEPT !.log = reported, !.round_num = @ + 1]
    IN  IF mutation.kind = "Panic"
        THEN [started EXCEPT !.pc = "panicked", !.outcome = "panic"]
        ELSE IF mutation.kind = "None"
        THEN [started EXCEPT !.outcome = "no_mutation"]
        ELSE LET applied_solution == apply_mutation(run.solution, mutation)
                 new_evaluation == evaluate(applied_solution, problem, run.eval_buffer_helper)
                 new_cost == total_cost(new_evaluation.counts, problem.cost_config, checks)
                 evaluated == [started EXCEPT !.eval_buffer_helper =
                                                  SomeBuffer(new_evaluation.buffer)]
             IN  IF new_cost.kind = "Panic"
                 THEN [evaluated EXCEPT !.solution = applied_solution,
                                        !.pc = "panicked", !.outcome = "panic"]
                 ELSE IF new_cost.kind = "None"
                 THEN infinite_round(evaluated, applied_solution, mutation)
                 ELSE IF is_better(run.current_cost, new_cost, draw)
                 THEN [evaluated EXCEPT !.solution = applied_solution,
                                        !.current_cost = new_cost, !.outcome = "kept"]
                 ELSE [evaluated EXCEPT !.solution =
                                            reverse_mutation(applied_solution, mutation),
                                        !.outcome = "reversed"]

(* struct SolverOutput with its log and solution *)
FullSolverOutput(solver_seed, final_cost, lines, assignment) ==
    [seed |-> solver_seed, final_cost |-> final_cost, log |-> lines, solution |-> assignment]

(* solver.rs 112-127: the tail of the log and the SolverOutput *)
solve_return(run, problem, solver_seed, elapsed) ==
    FullSolverOutput(solver_seed, run.current_cost,
                     run.log \o <<LogLine("Final cost", run.current_cost),
                                  LogLine("Breakdown of final cost",
                                          evaluate(run.solution, problem, NoBuffer).counts),
                                  LogLine("Solving took seconds", elapsed)>>,
                     run.solution)


\* the class lists that are solved: no class; a tut+lab at the latest start;
\* a class with its tut+lab and its lab assist, which overlap
SolveClassLists ==
    { <<>>,
      <<EvalClass(LatestClassStart, FALSE, TRUE)>>,
      <<EvalClass(LatestClassStart - 3, FALSE, FALSE)>> }

\* the instructor lists that are solved: none, one or two instructors
SolveInstructorLists ==
    { [j \in 1 .. n |-> ClassTypeRequirement(0, 1, 0, 1)] : n \in {0, 1, 2} }

\* the configs that are solved under
SolveConfigs ==
    { ConfigWith(1, [UnassignedSession |-> 5]),
      ConfigWith(1, [UnassignedSession |-> 5, AssignedImpossible |-> 1,
                     DirectOverlap |-> Infinity]) }

SolveInstructorIds == 0 .. (Len(instructors) - 1)

\* the shapes of the samples of make_random in a round: no Mult branch, or one
SolveShapes == MultShapes(0) \cup MultShapes(1)

\* the locals of the first run
ThisRun ==
    RunState(solution, current_cost, eval_buffer_helper, round_num, solve_pc, log,
             last_round.outcome)

NotStarted(initial) == RunState(initial, NoCost, NoBuffer, 0, "begin", <<>>, "none")

SolveInit ==
    /\ OrchIdle
    /\ AvailIdle
    /\ classes \in SolveClassLists
    /\ sessions = classes_to_sessions(classes)
    /\ overlaps_sharp = from_sessions(sessions, "Sharp")
    /\ overlaps_padded = from_sessions(sessions, "WithPadding")
    /\ overlaps_same_day = from_sessions(sessions, "SameDay")
    /\ build_pc = "built"
    /\ instructors \in SolveInstructorLists
    /\ availabilities \in AvailabilityPatterns(SessionIdsOf(sessions) \X SolveInstructorIds)
    /\ initial_solution \in [SessionIdsOf(sessions) -> SolveInstructorIds \cup {None}]
    /\ cost_config \in SolveConfigs
    \* the costs of these problems stay far below the range of CostValue
    /\ overflow_checks = FALSE
    /\ costs = NewCostCount
    /\ total = NoCost
    /\ previous = <<>>
    /\ eval_pc = "idle"
    /\ run_seed \in {SolverSeed(num_rounds, 0) : num_rounds \in 0 .. MaxRounds}
    /\ solution = initial_solution
    /\ before = initial_solution
    /\ applied = initial_solution
    /\ last_round = [origin |-> "solve_once", outcome |-> "none", kind |-> "None"]
    /\ round_num = 0
    /\ current_cost = NoCost
    /\ eval_buffer_helper = NoBuffer
    /\ solve_pc = "begin"
    /\ log = <<>>
    /\ output = FullSolverOutput(run_seed, NoCost, <<>>, <<>>)
    /\ second_run = [run |-> NotStarted(initial_solution),
                     output |-> FullSolverOutput(run_seed, NoCost, <<>>, <<>>)]

\* the locals of the first run become those of `run`
SetThisRun(run) ==
    /\ solution' = run.solution
    /\ current_cost' = run.current_cost
    /\ eval_buffer_helper' = run.eval_buffer_helper
    /\ round_num' = run.round_num
    /\ solve_pc' = run.pc
    /\ log' = run.log

(* solver.rs 33-62 in both runs *)
SolveBegin ==
    /\ solve_pc = "begin"
    /\ SetThisRun(solve_begin(Problem, initial_solution, run_seed, overflow_checks))
    /\ second_run' = [second_run EXCEPT !.run =
                        solve_begin(Problem, initial_solution, run_seed, overflow_checks)]
    /\ UNCHANGED <<availabilities, before, applied, last_round, buildvars, evalvars, orchvars,
                   availvars, run_seed, output>>

(* solver.rs 64-110: one round in both runs, with the same draws *)
SolveRound ==
    /\ solve_pc = "rounds"
    /\ round_num < run_seed.num_rounds
    /\ \E shape \in SolveShapes :
       \E draws \in [1 .. LeafCount(shape) ->
                        make_random_single(availabilities, SessionIdsOf(sessions),
                                           SolveInstructorIds, solution)] :
       \E draw \in BOOLEAN :
       \E mutation \in {make_random(shape, draws, 0)} :
       \E next \in {solve_round(ThisRun, Problem, overflow_checks, mutation, draw)} :
            /\ SetThisRun(next)
            /\ before' = solution
            /\ applied' = IF IsMutation(mutation)
                          THEN apply_mutation(solution, mutation)
                          ELSE solution
            /\ last_round' = [origin |-> "solve_once", outcome |-> next.outcome,
                              kind |-> mutation.kind]
            /\ second_run' = [second_run EXCEPT !.run =
                                solve_round(second_run.run, Problem, overflow_checks,
                                            mutation, draw)]
    /\ UNCHANGED <<availabilities, buildvars, evalvars, orchvars, availvars, run_seed, output>>

(* solver.rs 112-127 in both runs; each run reads its own clock *)
SolveReturn ==
    /\ solve_pc = "rounds"
    /\ round_num = run_seed.num_rounds
    /\ solve_pc' = "returned"
    /\ \E elapsed, second_elapsed \in ElapsedTimes :
        /\ output' = solve_return(ThisRun, Problem, run_seed, elapsed)
        /\ second_run' = [run |-> [second_run.run EXCEPT !.pc = "returned"],
                          output |-> solve_return(second_run.run, Problem, run_seed,
                                                  second_elapsed)]
    /\ UNCHANGED <<mutvars, buildvars, evalvars, orchvars, availvars, run_seed, round_num,
                   current_cost, eval_buffer_helper, log>>

SolveNext == SolveBegin \/ SolveRound \/ SolveReturn

SpecSolve == SolveInit /\ [][SolveNext]_vars


\* C14: two runs of solve_once on the same problem, initial solution and seed
\* return the same SolverOutput: seed, final cost, log and solution.
C14_SolveOnceDeterministic ==
    solve_pc = "returned" => output = second_run.output

\* the CostCount of an assignment
CountsOf(assignment) == evaluate(assignment, Problem, NoBuffer).counts

\* C15: with no session or no instructor, solve_once with at least one round
\* does not fail and returns the initial solution, whose only nonzero count is
\* UnassignedSession.
C15_EmptyListsSolve ==
    ((Len(sessions) = 0 \/ Len(instructors) = 0) /\ run_seed.num_rounds >= 1) =>
        /\ solve_pc # "panicked"
        /\ solve_pc = "returned" =>
            /\ output.solution = initial_solution
            /\ \A c \in ConstraintSet \ {"UnassignedSession"} :
                    CountsOf(output.solution)[c] = 0

\* every instructor is Impossible for the session
AllImpossible(session) ==
    \A j \in SolveInstructorIds : get_availability(availabilities, session, j) = "Impossible"

\* C16: a session for which every instructor is Impossible is unassigned in
\* the solution solve_once returns, when the AssignedImpossible weight is
\* not zero.
C16_AllImpossibleStaysUnassigned ==
    (solve_pc = "returned" /\ cost_config["AssignedImpossible"] # 0) =>
        \A s \in SessionIdsOf(sessions) :
            AllImpossible(s) => output.solution[s] = None

\* C20: a round whose mutated solution has infinite total cost leaves the
\* solution and the current cost as they were before the round, and the run
\* goes on with its next round.
C20_InfiniteRoundIsSkipped ==
    [][(solve_pc = "rounds" /\ round_num' = round_num + 1
        /\ last_round'.outcome = "infinite") =>
            /\ solution' = solution
            /\ current_cost' = current_cost
            /\ solve_pc' = "rounds"
            /\ total_cost(CountsOf(applied'), cost_config, overflow_checks) = NoCost]_vars

C20_Witness ==
    /\ last_round.outcome = "infinite"
    /\ last_round.kind = "Mult"
    /\ current_cost.kind = "None"
    /\ applied # solution
    /\ solution = before


-----------------------------------------------------------------------------
(* Availability aggregation (talloc.rs 158-213, availabilities.rs 16-63) *)

\* enum Availability in its derived order
AvailabilityOrder == <<"Impossible", "Dislike", "Possible", "Preferred">>

AvailabilityRank(availability) ==
    CHOOSE r \in 0 .. 3 : AvailabilityOrder[r + 1] = availability

\* Option<Availability>::None, which the derived order puts before every Some
NoAvailability == "None"

\* the value of an application under one key: a u8 written as a string, or
\* None for a value that is not a string or does not parse as u8
AvailRaws == {None, 0, 6, 9, 19}

\* the keys "mon19", "mon20", "mon21" of an application
AvailKeys == {"Mon"} \X ((LatestClassStart - 1) .. (LatestClassStart + 1))

(* TallocApps::get_application: enum TallocApplication, or kind "None" for *)
(* the None of the Option                                                  *)
get_application(apps, zid) ==
    IF zid \in DOMAIN apps.applications
    THEN [kind |-> "Application", entries |-> apps.applications[zid]]
    ELSE IF apps.ignore_no_application THEN [kind |-> "NoApplication", entries |-> <<>>]
    ELSE [kind |-> "None", entries |-> <<>>]

(* TallocApplication::get_availability *)
application_get_availability(application, day, time, mode) ==
    IF application.kind = "NoApplication" THEN "Impossible"
    ELSE IF <<day, time>> \notin DOMAIN application.entries THEN NoAvailability
    ELSE IF application.entries[<<day, time>>] = None THEN NoAvailability
    ELSE LET parsed == application.entries[<<day, time>>]
             raw_availability == IF mode = "Online" THEN parsed \div 4 ELSE parsed
         IN  AvailabilityOrder[(raw_availability % 4) + 1]

\* the aggregate that reads the first hour of the session only
check_availability_first_hour(application, session) ==
    application_get_availability(application, session.day, session.start_time,
                                 session.mode)

(* check_availability: Iterator::min over the Option<Availability> of the   *)
(* hours of the session, flattened.  A session made by class_to_sessions    *)
(* ends by 23, so add_hr does not panic.                                    *)
check_availability(application, session) ==
    LET looked == {application_get_availability(application, session.day,
                        add_hr(session.start_time, hour_offset), session.mode) :
                    hour_offset \in 0 .. (session.duration - 1)}
        OptionRank(option) == IF option = NoAvailability THEN -1
                              ELSE AvailabilityRank(option)
    IN  IF looked = {} THEN NoAvailability
        ELSE CHOOSE a \in looked : \A b \in looked : OptionRank(a) <= OptionRank(b)

(* AvailabilityMatrix::build from the cell of index idx on: sessions outside, *)
(* instructors inside, the first Err returned                                 *)
RECURSIVE BuildFrom(_, _, _, _, _)
BuildFrom(instructor_list, session_list, apps, idx, matrix) ==
    IF idx = Len(session_list) * Len(instructor_list)
    THEN [kind |-> "Ok", matrix |-> matrix]
    ELSE LET session == session_list[(idx \div Len(instructor_list)) + 1]
             instructor == instructor_list[(idx % Len(instructor_list)) + 1]
             application == get_application(apps, instructor.zid)
         IN  IF application.kind = "None"
             THEN [kind |-> "no_application", matrix |-> <<>>]
             ELSE IF check_availability(application, session) = NoAvailability
             THEN [kind |-> "failed_lookup", matrix |-> <<>>]
             ELSE BuildFrom(instructor_list, session_list, apps, idx + 1,
                            Append(matrix, check_availability(application, session)))

build(instructor_list, session_list, apps) ==
    BuildFrom(instructor_list, session_list, apps, 0, <<>>)

(* the AvailabilityMatrix of a built vector, as get_availability reads it:  *)
(* cell session * num_instructors + instructor                              *)
AvailabilityMatrix(matrix, num_instructors, num_sessions) ==
    [cell \in (0 .. (num_sessions - 1)) \X (0 .. (num_instructors - 1)) |->
        matrix[cell[1] * num_instructors + cell[2] + 1]]

\* the instructors of a build, by zid
AvailInstructorLists == {<<[zid |-> "z1"]>>, <<[zid |-> "z1"], [zid |-> "z2"]>>}

\* the classes of a build: one class on Monday, starting at the first of the
\* keys or one hour before it.  (The overlap matrices of main.rs 75-86 are
\* built before the availabilities, and from_sessions panics on a class with
\* both sessions that starts at the latest hour.)
AvailClassLists ==
    {<<c>> : c \in {k \in Classes : k.day = "Mon"
                                    /\ k.start \in {LatestClassStart - 2,
                                                    LatestClassStart - 1}}}

\* the applications on file: z1 has any application over the keys or none,
\* z2 has none or one with the same value at every key
AvailApplications ==
    {z1 @@ z2 :
        z1 \in {<<>>} \cup {[zid \in {"z1"} |-> entries] : entries \in [AvailKeys -> AvailRaws]},
        z2 \in {<<>>, [zid \in {"z2"} |-> [key \in AvailKeys |-> 6]]}}

AvailInit ==
    /\ MutIdle
    /\ initial_solution = <<>>
    /\ cost_config = <<>>
    /\ overflow_checks = FALSE
    /\ costs = <<>>
    /\ total = <<>>
    /\ previous = <<>>
    /\ eval_pc = "idle"
    /\ OrchIdle
    /\ SolveIdle
    /\ overlaps_sharp = {}
    /\ overlaps_padded = {}
    /\ overlaps_same_day = {}
    /\ build_pc = "idle"
    /\ classes \in AvailClassLists
    /\ sessions = classes_to_sessions(classes)
    /\ \E instructor_list \in AvailInstructorLists, on_file \in AvailApplications,
          ignore_no_application \in BOOLEAN :
        /\ instructors = instructor_list
        /\ applications = [applications |-> on_file,
                           ignore_no_application |-> ignore_no_application]
    /\ avail_pc = "start"
    /\ prior_build = [changed |-> FALSE]

\* what a build leaves: the matrix and the position
AfterBuild(result, instructor_list) ==
    /\ availabilities' = IF result.kind = "Ok"
                         THEN AvailabilityMatrix(result.matrix, Len(instructor_list),
                                                 Len(sessions))
                         ELSE <<>>
    /\ avail_pc' = IF result.kind # "Ok" THEN result.kind
                   ELSE IF prior_build'.changed THEN "rebuilt" ELSE "built"

(* main.rs 105: AvailabilityMatrix::build on the applications fetched *)
AvailBuild ==
    /\ avail_pc = "start"
    /\ prior_build' = prior_build
    /\ \E result \in {build(instructors, sessions, applications)} :
        AfterBuild(result, instructors)
    /\ UNCHANGED <<solution, before, applied, last_round, buildvars, evalvars, orchvars,
                   solvevars, applications>>

(* the same build on applications that differ in the value under one key of *)
(* one application                                                          *)
ChangeHour ==
    /\ avail_pc = "built"
    /\ \E zid \in DOMAIN applications.applications, key \in AvailKeys, raw \in AvailRaws :
        /\ raw # applications.applications[zid][key]
        /\ prior_build' = [changed |-> TRUE, applications |-> applications,
                           availabilities |-> availabilities, zid |-> zid, key |-> key]
        /\ applications' = [applications EXCEPT !.applications[zid][key] = raw]
        /\ \E result \in {build(instructors, sessions, applications')} :
            AfterBuild(result, instructors)
    /\ UNCHANGED <<solution, before, applied, last_round, buildvars, evalvars, orchvars,
                   solvevars>>

AvailNext == AvailBuild \/ ChangeHour

SpecAvail == AvailInit /\ [][AvailNext]_vars


\* the two bits of a parsed value that a mode reads
ModeBits(raw, mode) == IF mode = "F2F" THEN raw % 4 ELSE (raw \div 4) % 4

\* the rank of what the instructor with this zid entered for an hour, read
\* under a mode; -1 when there is nothing to read.  An instructor without an
\* application counts as Impossible.
HourRank(apps, zid, day, hour, mode) ==
    IF zid \notin DOMAIN apps.applications THEN 0
    ELSE IF <<day, hour>> \notin DOMAIN apps.applications[zid] THEN -1
    ELSE IF apps.applications[zid][<<day, hour>>] = None THEN -1
    ELSE ModeBits(apps.applications[zid][<<day, hour>>], mode)

\* the ranks over the hours a session spans
SessionRanks(apps, zid, session) ==
    {HourRank(apps, zid, session.day, session.start_time + hour_offset, session.mode) :
        hour_offset \in 0 .. (session.duration - 1)}

MinRank(ranks) == CHOOSE r \in ranks : \A q \in ranks : r <= q

AvailCells == SessionIdsOf(sessions) \X (0 .. (Len(instructors) - 1))

\* C17: AvailabilityMatrix::build stores for each (session, instructor) the
\* minimum, in the order Impossible < Dislike < Possible < Preferred, of the
\* instructor's availabilities over the hours of the session, read from bits
\* 0-1 for F2F and bits 2-3 for Online; raising the availability of one hour
\* never lowers a stored aggregate; a failed lookup for an hour of some
\* (session, instructor) fails the build.
C17_BuildStoresMinimum ==
    /\ avail_pc \in {"built", "rebuilt"} =>
        \A cell \in AvailCells :
            AvailabilityRank(get_availability(availabilities, cell[1], cell[2]))
                = MinRank(SessionRanks(applications, instructors[cell[2] + 1].zid,
                                       SessionById(sessions, cell[1])))
    /\ avail_pc = "rebuilt" =>
        \A cell \in AvailCells :
            LET old == prior_build.applications.applications[prior_build.zid][prior_build.key]
                new == applications.applications[prior_build.zid][prior_build.key]
                mode == SessionById(sessions, cell[1]).mode
            IN  (old # None /\ new # None /\ ModeBits(new, mode) >= ModeBits(old, mode)) =>
                    AvailabilityRank(get_availability(availabilities, cell[1], cell[2]))
                        >= AvailabilityRank(get_availability(prior_build.availabilities,
                                                             cell[1], cell[2]))
    /\ (avail_pc # "start"
        /\ \E cell \in AvailCells :
              -1 \in SessionRanks(applications, instructors[cell[2] + 1].zid,
                                  SessionById(sessions, cell[1]))) =>
            /\ avail_pc \in {"failed_lookup", "no_application"}
            /\ availabilities = <<>>

C17_Witness ==
    /\ avail_pc = "rebuilt"
    /\ Len(instructors) = 2
    /\ \E cell \in AvailCells :
        LET session == SessionById(sessions, cell[1])
            application == get_application(applications, instructors[cell[2] + 1].zid)
        IN  /\ session.mode = "Online"
            /\ AvailabilityRank(get_availability(availabilities, cell[1], cell[2]))
                 > AvailabilityRank(get_availability(prior_build.availabilities,
                                                     cell[1], cell[2]))
            /\ get_availability(availabilities, cell[1], cell[2])
                 # check_availability_first_hour(application, session)


\* C18: evaluate is a pure function of the assignment and the problem: the
\* CostCount of a second evaluation of the same solution and problem equals
\* that of the first, whether the buffer passed in is absent, fresh, or
\* recycled from the evaluation of a different assignment.
C18_EvaluateIgnoresBuffer ==
    eval_pc = "evaluated_again" => (costs = previous.costs /\ total = previous.total)

C18_Witness ==
    /\ eval_pc = "evaluated_again"
    /\ previous.origin = "recycled"
    /\ \E j \in 1 .. Len(instructors) :
        /\ previous.buffer.instructor_allocations[j] # <<>>
        /\ \E s \in SessionIdsOf(sessions) : solution[s] = j - 1


\* the total cost of an assignment under the config of the problem
TotalOf(assignment) == total_cost(CountsOf(assignment), cost_config, overflow_checks)

\* C21: in a round whose mutated solution has finite cost new, the mutation
\* is retained and the current cost becomes new when the current cost is
\* infinite or new <= current; the mutation is reversed only when
\* new > current, and then the current cost is unchanged.
C21_EqualOrBetterIsRetained ==
    [][(solve_pc = "rounds" /\ round_num' = round_num + 1
        /\ last_round'.outcome \in {"kept", "reversed"}) =>
            /\ TotalOf(applied').kind = "Some"
            /\ (current_cost.kind = "None"
                \/ TotalOf(applied').value <= current_cost.value) =>
                    /\ last_round'.outcome = "kept"
                    /\ solution' = applied'
                    /\ current_cost' = TotalOf(applied')
            /\ last_round'.outcome = "reversed" =>
                    /\ current_cost.kind = "Some"
                    /\ TotalOf(applied').value > current_cost.value
                    /\ solution' = solution
                    /\ current_cost' = current_cost]_vars

C21_Witness ==
    /\ last_round.outcome = "kept"
    /\ solution = applied
    /\ applied # before
    /\ current_cost.kind = "Some"
    /\ TotalOf(before) = current_cost


\* the unordered pairs of distinct sessions that the solution gives to one
\* instructor, as <<lower id, higher id>>
SharedPairs ==
    {p \in SessionIdsOf(sessions) \X SessionIdsOf(sessions) :
        p[1] < p[2] /\ solution[p[1]] # None /\ solution[p[1]] = solution[p[2]]}

\* the pair overlaps under a requirement, in one session order or the other
OverlapsEitherOrder(p, requirement) ==
    \/ overlaps_with(SessionById(sessions, p[1]), SessionById(sessions, p[2]),
                     requirement) = "true"
    \/ overlaps_with(SessionById(sessions, p[2]), SessionById(sessions, p[1]),
                     requirement) = "true"

\* the two sessions are on one day and their times [start, start + duration)
\* have an hour in common
TimesStrictlyOverlap(p) ==
    LET a == SessionById(sessions, p[1])
        b == SessionById(sessions, p[2])
    IN  /\ a.day = b.day
        /\ a.start_time < b.start_time + b.duration
        /\ b.start_time < a.start_time + a.duration

\* the tier the pair counts in: Direct, else Padded, else SameDay, else none
TierOf(p) ==
    IF OverlapsEitherOrder(p, "Sharp") \/ TimesStrictlyOverlap(p) THEN "DirectOverlap"
    ELSE IF should_count(cost_config, "PaddedOverlap")
            /\ OverlapsEitherOrder(p, "WithPadding") THEN "PaddedOverlap"
    ELSE IF should_count(cost_config, "SameDayOverlap")
            /\ OverlapsEitherOrder(p, "SameDay") THEN "SameDayOverlap"
    ELSE "none"

\* C22: for every instructor and every unordered pair of distinct sessions
\* assigned to them, evaluate adds one count to at most one of DirectOverlap,
\* PaddedOverlap, SameDayOverlap: Direct if the pair overlaps under Sharp in
\* either order or its times strictly overlap, else Padded if active and the
\* pair overlaps with padding, else SameDay if active and on the same day.
C22_OnePairOneTier ==
    eval_pc = "evaluated" =>
        \A tier \in {"DirectOverlap", "PaddedOverlap", "SameDayOverlap"} :
            costs[tier] = Cardinality({p \in SharedPairs : TierOf(p) = tier})


\* the pairs <<slice[i], slice[j]>> with i < j, in ascending order of j and
\* then of i, the order in which the walk reaches them
RECURSIVE AscendingPairs(_, _, _)
AscendingPairs(slice, i, j) ==
    IF j > Len(slice) THEN <<>>
    ELSE IF i >= j THEN AscendingPairs(slice, 1, j + 1)
    ELSE <<<<slice[i], slice[j]>>>> \o AscendingPairs(slice, i + 1, j)

\* the allocation evaluate builds for each instructor of the problem
InstructorAllocations == evaluate(solution, Problem, NoBuffer).buffer

\* C23: TwoCombIter over a slice of length n yields exactly the n(n-1)/2
\* pairs (slice[i], slice[j]) with i < j, each once, in ascending-index
\* order, and no pair of an element with itself.
C23_WalkYieldsDistinctPairs ==
    eval_pc = "evaluated" =>
        \A k \in 1 .. Len(InstructorAllocations) :
            LET slice == InstructorAllocations[k]
                walk == TwoCombIter(slice)
            IN  /\ walk = AscendingPairs(slice, 1, 2)
                /\ Len(walk) * 2 = Len(slice) * (Len(slice) - 1)
                /\ \A n \in 1 .. Len(walk) : walk[n][1] # walk[n][2]


-----------------------------------------------------------------------------
(* The minimum and maximum counts of one instructor (evaluator.rs 97-142) *)

\* the numbers of tut+labs and of lab assists in one allocation; a usize
MinMaxCounts == {0, 1, 3, 255, 256, 258}

\* the requirements of the instructor: at most one, one or two, or exactly
\* two sessions of a type
MinMaxRequirements ==
    {ClassTypeRequirement(t[1], t[2], a[1], a[2]) :
        t \in {<<0, 1>>, <<1, 2>>, <<2, 2>>}, a \in {<<0, 1>>, <<1, 2>>, <<2, 2>>}}

MinMaxInit ==
    /\ MutIdle
    /\ BuildIdle
    /\ OrchIdle
    /\ SolveIdle
    /\ AvailIdle
    /\ instructors \in {<<requirement>> : requirement \in MinMaxRequirements}
    /\ initial_solution = <<>>
    /\ cost_config = <<>>
    /\ overflow_checks = FALSE
    /\ costs = NewCostCount
    /\ total = <<>>
    /\ previous \in [num_tuts : MinMaxCounts, num_labs : {0, 1, 255}]
    /\ eval_pc = "allocated"

(* evaluator.rs 100-142 for the one instructor, whose allocation has *)
(* previous.num_tuts tut+labs and previous.num_labs lab assists      *)
CountMinMax ==
    /\ eval_pc = "allocated"
    /\ costs' = add_minmax_costs(costs, instructors[1], previous.num_tuts,
                                 previous.num_labs,
                                 previous.num_tuts + previous.num_labs)
    /\ eval_pc' = "counted"
    /\ UNCHANGED <<mutvars, buildvars, orchvars, solvevars, availvars, instructors,
                   initial_solution, cost_config, overflow_checks, total, previous>>

MinMaxNext == CountMinMax

SpecMinMax == MinMaxInit /\ [][MinMaxNext]_vars

\* what a count adds below its minimum and above its maximum
Shortfall(actual, min) == IF actual < min THEN min - actual ELSE 0
Excess(actual, max) == IF actual > max THEN actual - max ELSE 0

\* C24: for an instructor with T tut+labs and L lab assists, evaluate adds
\* min - actual to the BelowMin counter when actual < min and actual - max to
\* the AboveMax counter when actual > max, for T, for L and for T + L, for
\* every count, those above 255 included.
C24_MinMaxCounts ==
    eval_pc = "counted" =>
        LET r == instructors[1]
            T == previous.num_tuts
            L == previous.num_labs
        IN  /\ costs["BelowMinTut"] = Shortfall(T, r.min_tutes)
            /\ costs["AboveMaxTut"] = Excess(T, r.max_tutes)
            /\ costs["BelowMinLab"] = Shortfall(L, r.min_lab_assists)
            /\ costs["AboveMaxLab"] = Excess(L, r.max_lab_assists)
            /\ costs["BelowMinClass"] = Shortfall(T + L, r.min_total_classes)
            /\ costs["AboveMaxClass"] = Excess(T + L, r.max_total_classes)


\* the sessions whose initial assignment is defined and differs from the
\* current one
MismatchedSessions ==
    {s \in SessionIdsOf(sessions) :
        initial_solution[s] # None /\ initial_solution[s] # solution[s]}

\* C25: when MismatchedInitialSolution is active its count after evaluate is
\* the number of sessions whose initial assignment is defined and differs
\* from the current assignment, an unassigned session included; when its
\* weight is 0 the count is 0.
C25_MismatchedCount ==
    eval_pc = "evaluated" =>
        costs["MismatchedInitialSolution"] =
            IF cost_config["MismatchedInitialSolution"] = 0 THEN 0
            ELSE Cardinality(MismatchedSessions)

C25_Witness ==
    /\ eval_pc = "evaluated"
    /\ cost_config["MismatchedInitialSolution"] # 0
    /\ \E s \in MismatchedSessions : solution[s] = None
    /\ \E s \in MismatchedSessions : solution[s] # None
    /\ \E s \in SessionIdsOf(sessions) : solution[s] = initial_solution[s]


\* what the 16-try rule may emit: an Add or a single Swap to an instructor
\* who is not Impossible for the session
ThroughSixteenTries(mutation) ==
    mutation.kind \in {"Add", "Swap"} =>
        get_availability(availabilities, mutation.session, mutation.new) # "Impossible"

\* C26: every Add(s, j) and every single-session Swap(s, old, j) that
\* make_random emits through the 16-try rule has availability(s, j) not
\* Impossible; when every draw is Impossible the sampler returns no mutation;
\* a Mult is returned only if both of its sampled components are mutations.
C26_SamplerAvoidsImpossible ==
    last_round.outcome = "none" =>
        /\ \A shape \in Shapes :
           \A draws \in [1 .. LeafCount(shape) ->
                            make_random_single(availabilities, MutSessionIds,
                                               MutInstructorIds, solution)] :
              /\ \A i \in 1 .. LeafCount(shape) : ThroughSixteenTries(draws[i])
              /\ ThroughSixteenTries(make_random(shape, draws, 0))
              /\ (shape.mult /\ make_random(shape, draws, 0).kind = "Mult") =>
                    /\ IsMutation(make_random(shape.first, draws, 0))
                    /\ IsMutation(make_random(shape.second, draws, LeafCount(shape.first)))
        /\ \A s \in MutSessionIds :
              (\A j \in MutInstructorIds :
                    get_availability(availabilities, s, j) = "Impossible") =>
                  \A m \in make_random_single(availabilities, {s}, MutInstructorIds,
                                              solution) :
                      /\ m.kind \notin {"Add", "Swap"}
                      /\ solution[s] = None => m = NoMutation

C26_Witness ==
    /\ last_round.origin = "make_random"
    /\ last_round.kind = "Add"
    /\ \E s \in MutSessionIds :
        /\ before[s] = None
        /\ applied[s] # None
        /\ get_availability(availabilities, s, applied[s]) # "Impossible"
        /\ \E j \in MutInstructorIds : get_availability(availabilities, s, j) = "Impossible"


\* the number of jobs queued before the attempts: the warm-up, if any
WarmUps == IF args.start_seed = None THEN 1 ELSE 0

\* C27: the attempts launched in one run have pairwise distinct rng seeds;
\* attempt i uses seed start_seed + i, with start_seed defaulting to 1; the
\* warm-up with seed 0 and R / 20 rounds is launched before the attempts
\* exactly when no start seed was given.
C27_SeedsDistinct ==
    (orch_pc \notin {"construct", "start"} /\ main_result \notin ConstructionErrors) =>
        /\ \A k \in JobIds : \A other \in JobIds :
              k # other => jobs[k].seed.rng_seed # jobs[other].seed.rng_seed
        /\ Len(jobs) = WarmUps + next_attempt
        /\ args.start_seed = None =>
              (jobs # <<>> /\ jobs[1].seed = SolverSeed(args.num_rounds \div 20, 0))
        /\ \A i \in 0 .. (next_attempt - 1) :
              jobs[WarmUps + i + 1].seed =
                  SolverSeed(args.num_rounds,
                             (IF args.start_seed = None THEN 1 ELSE args.start_seed) + i)


\* C28: at the start of every round and at return the tracked current cost is
\* the total cost of the evaluation of the current solution, and the
\* final_cost of the SolverOutput is the total cost of the returned solution.
C28_CostTracksSolution ==
    /\ solve_pc \in {"rounds", "returned"} => current_cost = TotalOf(solution)
    /\ solve_pc = "returned" =>
        /\ output.solution = solution
        /\ output.final_cost = TotalOf(output.solution)

C28_Witness ==
    /\ solve_pc = "returned"
    /\ round_num = MaxRounds
    /\ last_round.outcome = "reversed"
    /\ output.solution # initial_solution
    /\ output.final_cost.kind = "Some"
    /\ output.final_cost # TotalOf(initial_solution)
    /\ output.final_cost # TotalOf(applied)

\* C29: within one run of solve_once a finite current cost stays finite in
\* every later round and at return; and as long as the current cost is
\* infinite the current solution is the initial solution, cell for cell.
C29_FiniteStaysFinite ==
    /\ [][(solve_pc = "rounds" /\ current_cost.kind = "Some") =>
            /\ current_cost'.kind = "Some"
            /\ solve_pc' = "returned" => output'.final_cost.kind = "Some"]_vars
    /\ []((solve_pc \in {"rounds", "returned"} /\ current_cost.kind = "None") =>
            \A s \in SessionIdsOf(sessions) : solution[s] = initial_solution[s])
    /\ []((solve_pc = "returned" /\ output.final_cost.kind = "None") =>
            output.solution = initial_solution)

C29_Witness ==
    /\ solve_pc = "rounds"
    /\ TotalOf(initial_solution).kind = "None"
    /\ current_cost.kind = "Some"
    /\ last_round.outcome = "infinite"
    /\ applied # solution
    /\ solution # initial_solution


\* the overlap requirements, in the order main_impl builds their matrices
OverlapRequirements == {"Sharp", "WithPadding", "SameDay"}

\* C30: from_sessions completes without a failed assertion, under each of
\* the three overlap requirements, for every session list in which each
\* session has start + duration < 24.
C30_FromSessionsCompletes ==
    (build_pc # "classes"
     /\ \A i \in 1 .. Len(sessions) :
            sessions[i].start_time + sessions[i].duration < DayHours) =>
        /\ build_pc = "built"
        /\ \A requirement \in OverlapRequirements :
                ~FromSessionsPanics(sessions, requirement)

=============================================================================
